---------------------------- MODULE Spec2Model ----------------------------
(***************************************************************************)
(* PL/0 compiler and interpreter: the driver (main), the lexer at lexeme   *)
(* granularity, the single-pass parser with its symbol table and code      *)
(* generator, and the stack virtual machine.                               *)
(*                                                                         *)
(* Conventions.  Instruction addresses and stack slots are 0-based as in   *)
(* the C++ code; TLA+ sequences are 1-based, so instruction a is           *)
(* code[a + 1].  The token position of the parser is kept 1-based          *)
(* (C++ position p is pos = p + 1).  The data stack is a function on       *)
(* 0 .. MemTop: slots 0 .. STACK_SIZE-1 are the std::vector, the slots     *)
(* above are the heap memory that follows it.                              *)
(***************************************************************************)
EXTENDS Integers, Sequences, FiniteSets, TLC

VARIABLES
    opts,        \* CompilerOptions: the chosen final phase
    source,      \* the source text as a sequence of lexemes
    input,       \* the integers given on standard input
    stdin,       \* the part of input not yet read
    pc,          \* position of main: "lex", "setSource", "lexCheck", "parse",
                 \* "parseCheck", "exec", "done"
    tokens,      \* std::vector<Token> returned by Lexer::tokenize
    lexErr,      \* Lexer::hasErrorFlag
    errorCount,  \* DiagnosticEngine::errorCount
    warningCount,\* DiagnosticEngine::warningCount
    diags,       \* every diagnostic written to stderr so far, in order
    parseRes,    \* "none", "true", "false" (parse() returned) or "exception"
    code,        \* instruction vector handed to the interpreter
    scopeHist,   \* every scope content the symbol table ever held
    blockHist,   \* every block parsed: its JMP, its INT and its variables
    P, T, B,     \* VM registers
    stack,       \* VM data memory
    running,     \* Interpreter::running
    rtError,     \* runtime error message written by the VM ("" if none)
    oob,         \* an access outside the std::vector has happened
    stdout,      \* integers written by WRT
    exitCode,    \* process exit code (-1 while main runs)
    raw,         \* the bytes of a file given to the InputBuffer
    buf,         \* the InputBuffer reading raw
    lexPc,       \* use of the buffer: "idle", "tokenize" (the scanning loop),
                 \* "deliver" (currentChar/advance until EOF), "past"
                 \* (advance has been called at EOF), "done", or
                 \* "ub" (forward has been dereferenced outside the object)
    lexTokens,   \* the tokens Lexer::tokenize has pushed, as [type, value]
    skipped,     \* the bytes skipWhitespace has advanced over
    delivered,   \* the bytes currentChar has delivered in "deliver"
    peeks,       \* the calls of peekChar so far
    sourceLine,  \* the bytes of the source line of a diagnostic being reported
    column,      \* diag.location.column (1-based byte column)
    visualColumn \* the spaces report() wrote before the caret (-1: none yet)

vars == <<opts, source, input, stdin, pc, tokens, lexErr, errorCount, warningCount,
          diags, parseRes, code, scopeHist, blockHist, P, T, B, stack, running, rtError,
          oob, stdout, exitCode,
          raw, buf, lexPc, lexTokens, skipped, delivered, peeks,
          sourceLine, column, visualColumn>>

reportVars == <<sourceLine, column, visualColumn>>

lexVars == <<raw, buf, lexPc, lexTokens, skipped, delivered, peeks>>

-----------------------------------------------------------------------------
(* Bounds of the model *)

\* capacity of the VM stack; the program uses 10000 (interpreter.h), the
\* model a smaller vector so that overflow is reached in few steps
STACK_SIZE == 32

\* number of heap slots modelled beyond the end of the vector
RED_ZONE == 6

\* largest integer offered on standard input
MaxInput == 5

\* most statements in a generated main body
MaxStmts == 2

MemTop == STACK_SIZE + RED_ZONE - 1

\* size of one half of the input buffer; the program uses 4096 (lexer.h),
\* the model a smaller block so that few bytes fill and refill it
BUFFER_SIZE == 2

\* most bytes in a file given to the buffer
MaxBytes == 5

\* most calls of peekChar in one run, and the largest offset passed
MaxPeeks == 1
MaxOffset == 2

\* largest operand of the generated expressions
MaxOperand == 3

-----------------------------------------------------------------------------
(* Program constants *)

RA_OFFSET == 0
DL_OFFSET == 1
SL_OFFSET == 2

\* decimal digits of INT_MAX and LLONG_MAX
IntMaxDigits == <<2,1,4,7,4,8,3,6,4,7>>
LLongMaxDigits == <<9,2,2,3,3,7,2,0,3,6,8,5,4,7,7,5,8,0,7>>

keywords ==
    {"program", "const", "var", "procedure", "begin", "end", "if", "then",
     "else", "while", "do", "call", "read", "write", "odd"}

-----------------------------------------------------------------------------
(* Decimal conversion: std::stoll in the lexer, std::stoi in the parser *)

RECURSIVE StripZeros(_)
StripZeros(ds) ==
    IF Len(ds) > 1 /\ ds[1] = 0 THEN StripZeros(Tail(ds)) ELSE ds

RECURSIVE LexGreater(_, _)
\* ds and lim have the same length: ds > lim digit by digit
LexGreater(ds, lim) ==
    IF ds = <<>> THEN FALSE
    ELSE IF ds[1] # lim[1] THEN ds[1] > lim[1]
    ELSE LexGreater(Tail(ds), Tail(lim))

\* the decimal number ds is greater than the decimal number lim
DecGreater(ds, lim) ==
    LET d == StripZeros(ds) IN
    \/ Len(d) > Len(lim)
    \/ Len(d) = Len(lim) /\ LexGreater(d, lim)

RECURSIVE DecValue(_, _)
DecValue(ds, acc) ==
    IF ds = <<>> THEN acc ELSE DecValue(Tail(ds), 10 * acc + ds[1])

\* std::stoi(value): the int, or out_of_range above INT_MAX
stoi(ds) ==
    IF DecGreater(ds, IntMaxDigits)
    THEN [ok |-> FALSE, val |-> 0]
    ELSE [ok |-> TRUE, val |-> DecValue(StripZeros(ds), 0)]

-----------------------------------------------------------------------------
(* Diagnostics *)

Diagnostic(lvl, ph, msg, sug, fix) ==
    [level |-> lvl, phase |-> ph, message |-> msg, suggestion |-> sug,
     suggestionCode |-> fix]

\* the number of diagnostics of level lvl among ds
CountLevel(ds, lvl) == Cardinality({i \in DOMAIN ds : ds[i].level = lvl})

-----------------------------------------------------------------------------
(* Lexer, at lexeme granularity.  A lexeme is [kind, text, digits]:        *)
(*   "word"    letters/digits/underscores starting with a letter           *)
(*   "uword"   the same, starting with an underscore                       *)
(*   "number"  a run of digits (digits holds them)                         *)
(*   "numword" a run of digits followed by letters                         *)
(*   "op"      one of the operator spellings, or an invalid character      *)

Token(ty, val, ds) == [type |-> ty, value |-> val, digits |-> ds]

EofToken == Token("END_OF_FILE", "", <<>>)

KeywordType(w) ==
    CASE w = "program" -> "PROGRAM" [] w = "const" -> "CONST"
      [] w = "var" -> "VAR" [] w = "procedure" -> "PROCEDURE"
      [] w = "begin" -> "BEGIN" [] w = "end" -> "END" [] w = "if" -> "IF"
      [] w = "then" -> "THEN" [] w = "else" -> "ELSE"
      [] w = "while" -> "WHILE" [] w = "do" -> "DO" [] w = "call" -> "CALL"
      [] w = "read" -> "READ" [] w = "write" -> "WRITE" [] w = "odd" -> "ODD"

\* readIdentifierOrKeyword: [tok, diag] (diag = <<>> when nothing is reported)
readIdentifierOrKeyword(lx) ==
    IF lx.kind = "uword"
    THEN [tok |-> Token("ERROR", lx.text, <<>>), err |-> TRUE,
          diag |-> <<Diagnostic("error", "lex",
                        "identifier cannot start with underscore",
                        "identifiers must start with a letter", "")>>]
    ELSE IF lx.text \in keywords
    THEN [tok |-> Token(KeywordType(lx.text), lx.text, <<>>), err |-> FALSE,
          diag |-> <<>>]
    ELSE [tok |-> Token("IDENTIFIER", lx.text, <<>>), err |-> FALSE,
          diag |-> <<>>]

\* readNumber
readNumber(lx) ==
    IF lx.kind = "numword"
    THEN [tok |-> Token("ERROR", lx.text, lx.digits), err |-> TRUE,
          diag |-> <<Diagnostic("error", "lex", "invalid identifier",
                        "identifiers cannot start with a digit", "")>>]
    ELSE IF DecGreater(lx.digits, LLongMaxDigits)      \* stoll throws
    THEN [tok |-> Token("INTEGER", "", lx.digits), err |-> TRUE,
          diag |-> <<Diagnostic("error", "lex", "integer literal overflow",
                        "", "")>>]
    ELSE IF DecGreater(lx.digits, IntMaxDigits)
    THEN [tok |-> Token("INTEGER", "", lx.digits), err |-> FALSE,
          diag |-> <<Diagnostic("warning", "lex",
                        "integer literal is too large",
                        "maximum value is 2147483647", "")>>]
    ELSE [tok |-> Token("INTEGER", "", lx.digits), err |-> FALSE,
          diag |-> <<>>]

OperatorType(t) ==
    CASE t = "+" -> "PLUS" [] t = "-" -> "MINUS" [] t = "*" -> "MULTIPLY"
      [] t = "/" -> "DIVIDE" [] t = "(" -> "LPAREN" [] t = ")" -> "RPAREN"
      [] t = "," -> "COMMA" [] t = ";" -> "SEMICOLON" [] t = "=" -> "EQ"
      [] t = "<=" -> "LEQ" [] t = "<>" -> "NEQ" [] t = "<" -> "LT"
      [] t = ">=" -> "GEQ" [] t = ">" -> "GT" [] t = ":=" -> "ASSIGN"
      [] OTHER -> "ERROR"

\* readOperator
readOperator(lx) ==
    LET ty == OperatorType(lx.text) IN
    IF ty # "ERROR"
    THEN [tok |-> Token(ty, lx.text, <<>>), err |-> FALSE, diag |-> <<>>]
    ELSE [tok |-> Token("ERROR", lx.text, <<>>), err |-> TRUE,
          diag |-> <<
            CASE lx.text = ":" ->
                   Diagnostic("error", "lex",
                       "unexpected ':' - did you mean ':='?",
                       "use ':=' for assignment", ":=")
              [] lx.text = "!=" ->
                   Diagnostic("error", "lex", "'!=' is not valid in PL/0",
                       "use '<>' for not-equal comparison", "<>")
              [] lx.text = "!" ->
                   Diagnostic("error", "lex", "unexpected character '!'",
                       "", "")
              [] lx.text \in {"&", "&&", "|", "||"} ->
                   Diagnostic("error", "lex", "is not valid in PL/0",
                       "PL/0 does not have logical operators", "")
              [] lx.text \in {"{", "}"} ->
                   Diagnostic("error", "lex", "unexpected character",
                       "use 'begin' and 'end' for blocks in PL/0", "")
              [] OTHER ->
                   Diagnostic("error", "lex", "unexpected character", "", "")
          >>]

\* the dispatch in the loop of Lexer::tokenize
readToken(lx) ==
    IF lx.kind \in {"word", "uword"} THEN readIdentifierOrKeyword(lx)
    ELSE IF lx.kind \in {"number", "numword"} THEN readNumber(lx)
    ELSE readOperator(lx)

\* Lexer::tokenize: the tokens (closed by the end-of-file token), the sticky
\* error flag, and the diagnostics in the order they are reported
tokenize(src) ==
    LET res == [i \in 1 .. Len(src) |-> readToken(src[i])]
        rep == SelectSeq(res, LAMBDA r : r.diag # <<>>)
    IN [toks |-> [i \in 1 .. Len(src) + 1 |->
                    IF i <= Len(src) THEN res[i].tok ELSE EofToken],
        err |-> \E i \in 1 .. Len(src) : res[i].err,
        diags |-> [i \in 1 .. Len(rep) |-> rep[i].diag[1]]]

-----------------------------------------------------------------------------
(* Symbol table and code generator, as fields of the parser state s:       *)
(*   tokens, pos           ParserWithCodegen::tokens, position (1-based)   *)
(*   scopes, addressStack, currentLevel        SymbolTable                 *)
(*   code                  CodeGenerator::code (nextCodeAddress = Len)     *)
(*   hasErrorFlag, diags   error flag and the diagnostics reported         *)
(*   exc                   an exception is propagating out of the parser   *)
(*   hist                  every content a scope has had                   *)
(*   blocks                the blocks parsed so far (see noteBlock)        *)
(* Once exc is set every operation leaves s unchanged: the rest of the     *)
(* parser is skipped by stack unwinding.                                   *)

Symbol(n, t, l, a) == [name |-> n, type |-> t, level |-> l, address |-> a]

NoSym == Symbol("", "NONE", -1, 0)

Instruction(o, l, a) == [op |-> o, level |-> l, address |-> a]

\* first address handed out to a variable of a new scope
FirstAddress == 3

\* a faulty enterScope: the three header words of the activation record
\* are not reserved
enterScopeNoHeader(s) ==
    IF s.exc THEN s
    ELSE [s EXCEPT !.currentLevel = @ + 1,
                   !.scopes = Append(@, <<>>),
                   !.addressStack = Append(@, 0)]

enterScope(s) ==
    IF s.exc THEN s
    ELSE [s EXCEPT !.currentLevel = @ + 1,
                   !.scopes = Append(@, <<>>),
                   !.addressStack = Append(@, FirstAddress)]

exitScope(s) ==
    IF s.exc \/ s.currentLevel < 0 THEN s
    ELSE [s EXCEPT !.scopes = SubSeq(@, 1, Len(@) - 1),
                   !.addressStack = SubSeq(@, 1, Len(@) - 1),
                   !.currentLevel = @ - 1]

getCurrentAddress(s) ==
    IF s.currentLevel >= 0 /\ s.currentLevel < Len(s.addressStack)
    THEN s.addressStack[s.currentLevel + 1]
    ELSE 0

addSymbol(s, name, type, value) ==
    IF s.exc \/ ~(s.currentLevel >= 0 /\ s.currentLevel < Len(s.scopes))
    THEN s
    ELSE LET lv == s.currentLevel + 1
             addr == IF type = "VAR" THEN getCurrentAddress(s) ELSE value
             sc == Append(s.scopes[lv], Symbol(name, type, s.currentLevel, addr))
         IN [s EXCEPT !.scopes[lv] = sc,
                      !.addressStack[lv] = IF type = "VAR" THEN @ + 1 ELSE @,
                      !.hist = @ \cup {sc}]

RECURSIVE findIn(_, _)
\* the first symbol of the vector sc named name
findIn(sc, name) ==
    IF sc = <<>> THEN NoSym
    ELSE IF sc[1].name = name THEN sc[1]
    ELSE findIn(Tail(sc), name)

RECURSIVE lookupFrom(_, _, _)
lookupFrom(s, name, i) ==
    IF i < 0 THEN NoSym
    ELSE LET f == findIn(s.scopes[i + 1], name) IN
         IF f # NoSym THEN f ELSE lookupFrom(s, name, i - 1)

lookup(s, name) == lookupFrom(s, name, s.currentLevel)

lookupCurrent(s, name) ==
    IF s.currentLevel >= 0 /\ s.currentLevel < Len(s.scopes)
    THEN findIn(s.scopes[s.currentLevel + 1], name)
    ELSE NoSym

getNextAddress(s) == Len(s.code)

emit(s, op, l, a) ==
    IF s.exc THEN s ELSE [s EXCEPT !.code = Append(@, Instruction(op, l, a))]

\* a faulty backpatch: instruction 0 is taken for "no instruction"
backpatchAfterFirst(s, codeIndex, address) ==
    IF ~s.exc /\ codeIndex > 0 /\ codeIndex < Len(s.code)
    THEN [s EXCEPT !.code[codeIndex + 1].address = address]
    ELSE s

backpatch(s, codeIndex, address) ==
    IF ~s.exc /\ codeIndex >= 0 /\ codeIndex < Len(s.code)
    THEN [s EXCEPT !.code[codeIndex + 1].address = address]
    ELSE s

-----------------------------------------------------------------------------
(* Parser: token navigation and error reporting *)

currentToken(s) ==
    IF s.pos > Len(s.tokens) THEN s.tokens[Len(s.tokens)] ELSE s.tokens[s.pos]

check(s, type) == currentToken(s).type = type

\* an advance without the test for the last token
advanceUnchecked(s) ==
    IF ~s.exc THEN [s EXCEPT !.pos = @ + 1] ELSE s

advance(s) ==
    IF ~s.exc /\ s.pos < Len(s.tokens) THEN [s EXCEPT !.pos = @ + 1] ELSE s

\* reportError(message[, suggestion]) and reportErrorAt(token, message[, suggestion])
reportError(s, msg, sug) ==
    IF s.exc THEN s
    ELSE [s EXCEPT !.hasErrorFlag = TRUE,
                   !.diags = Append(@, Diagnostic("error", "parse", msg, sug, ""))]

reportErrorAt(s, msg, sug) == reportError(s, msg, sug)

reportExpected(s, expected) ==
    IF s.exc THEN s
    ELSE LET ty == currentToken(s).type
             sug ==
               CASE expected = "';'" /\ ty = "BEGIN" -> "add ';' before 'begin'"
                 [] expected = "';'" /\ ty = "IDENTIFIER" ->
                        "statements must be separated by ';'"
                 [] expected = "';'" /\ ty = "END" ->
                        "add ';' after the last statement before 'end'"
                 [] expected = "':='" /\ ty = "EQ" ->
                        "use ':=' for assignment, '=' is for comparison"
                 [] expected = "'then'" -> "'if' condition must be followed by 'then'"
                 [] expected = "'do'" -> "'while' condition must be followed by 'do'"
                 [] expected = "'end'" -> "'begin' must have a matching 'end'"
                 [] expected = "')'" -> "missing closing parenthesis"
                 [] expected = "'('" -> "missing opening parenthesis"
                 [] OTHER -> ""
             fix == IF expected = "':='" /\ ty = "EQ" THEN ":=" ELSE ""
         IN [s EXCEPT !.hasErrorFlag = TRUE,
                      !.diags = Append(@, Diagnostic("error", "parse",
                                            "expected " \o expected, sug, fix))]

RECURSIVE synchronize(_)
synchronize(s) ==
    IF s.exc \/ check(s, "END_OF_FILE") THEN s
    ELSE IF check(s, "SEMICOLON") THEN advance(s)
    ELSE IF currentToken(s).type \in {"BEGIN", "END", "CONST", "VAR", "PROCEDURE"}
    THEN s
    ELSE synchronize(advance(s))

expect(s, type, message) ==
    IF check(s, type) THEN advance(s)
    ELSE synchronize(reportExpected(s, message))

expectSemicolon(s) ==
    IF check(s, "SEMICOLON") THEN advance(s)
    ELSE IF currentToken(s).type \in
              {"IDENTIFIER", "BEGIN", "IF", "WHILE", "CALL", "READ", "WRITE"}
    THEN synchronize(reportError(s, "expected ';'", "add ';' after previous token"))
    ELSE synchronize(reportError(s, "expected ';', found", ""))


-----------------------------------------------------------------------------
(* Parser: grammar rules with code generation *)

\* the element of a one-element set: The({ e(x) : x \in {v} }) is e with the
\* local x holding v, evaluated once
The(S) == CHOOSE x \in S : TRUE

RECURSIVE parseBlock(_), parseProc(_), procLoop(_), parseBody(_),
          bodyLoop(_), parseStatement(_), parseExp(_), expLoop(_),
          parseTerm(_), termLoop(_), parseFactor(_), argLoop(_),
          writeLoop(_)

\* std::stoi throws std::out_of_range: the exception leaves the parser
throw(s) == [s EXCEPT !.exc = TRUE]

\* a level field that ignores the depth of the reference
levelOfDeclaration(s, sym) == sym.level

levelDiff(s, sym) == s.currentLevel - sym.level

\* <factor> -> <id> | <integer> | (<exp>)
parseFactor(s) ==
    IF s.exc THEN s
    ELSE IF check(s, "IDENTIFIER")
    THEN LET sym == lookup(s, currentToken(s).value) IN
         advance(IF sym = NoSym
                 THEN reportErrorAt(s, "use of undeclared identifier",
                                    "declare it before use")
                 ELSE IF sym.type = "CONST"
                 THEN emit(s, "LIT", 0, sym.address)
                 ELSE IF sym.type = "VAR"
                 THEN emit(s, "LOD", levelDiff(s, sym), sym.address)
                 ELSE reportErrorAt(s, "procedure cannot be used as a value",
                                    "procedures cannot appear in expressions"))
    ELSE IF check(s, "INTEGER")
    THEN LET v == stoi(currentToken(s).digits) IN
         IF ~v.ok THEN throw(s)
         ELSE advance(emit(s, "LIT", 0, v.val))
    ELSE IF check(s, "LPAREN")
    THEN expect(parseExp(advance(s)), "RPAREN", "')'")
    ELSE IF check(s, "END_OF_FILE")
    THEN reportError(s, "unexpected end of file in expression",
                     "expression is incomplete")
    ELSE reportErrorAt(s, "expected expression (identifier, number, or '(')",
                       "found a token which cannot start an expression")

termLoop(s) ==
    IF s.exc THEN s
    ELSE IF check(s, "MULTIPLY") \/ check(s, "DIVIDE")
    THEN termLoop(emit(parseFactor(advance(s)), "OPR", 0,
                       IF check(s, "MULTIPLY") THEN 4 ELSE 5))
    ELSE s

\* <term> -> <factor>{<mop><factor>}
parseTerm(s) == termLoop(parseFactor(s))

expLoop(s) ==
    IF s.exc THEN s
    ELSE IF check(s, "PLUS") \/ check(s, "MINUS")
    THEN expLoop(emit(parseTerm(advance(s)), "OPR", 0,
                      IF check(s, "PLUS") THEN 2 ELSE 3))
    ELSE s

\* if (negative) emit(OPR, 0, NEG)
negate(s, negative) == IF negative THEN emit(s, "OPR", 0, 1) ELSE s

\* <exp> -> [+|-]<term>{<aop><term>}
parseExp(s) ==
    IF s.exc THEN s
    ELSE expLoop(negate(
             parseTerm(IF check(s, "PLUS") \/ check(s, "MINUS")
                       THEN advance(s) ELSE s),
             check(s, "MINUS")))

\* a table of relational codes that exchanges <= and >=
relOpCodeSwapped(type) ==
    CASE type = "EQ" -> 8 [] type = "NEQ" -> 9 [] type = "LT" -> 10
      [] type = "LEQ" -> 11 [] type = "GT" -> 12 [] type = "GEQ" -> 13

\* the OPR code emitted for a relational token
relOpCode(type) ==
    CASE type = "EQ" -> 8 [] type = "NEQ" -> 9 [] type = "LT" -> 10
      [] type = "LEQ" -> 13 [] type = "GT" -> 12 [] type = "GEQ" -> 11

\* <lexp> -> <exp> <lop> <exp> | odd <exp>
parseLexp(s) ==
    IF s.exc THEN s
    ELSE IF check(s, "ODD")
    THEN emit(parseExp(advance(s)), "OPR", 0, 6)
    ELSE The({ IF s1.exc THEN s1
               ELSE IF currentToken(s1).type \in
                         {"EQ", "NEQ", "LT", "LEQ", "GT", "GEQ"}
               THEN emit(parseExp(advance(s1)), "OPR", 0,
                         relOpCode(currentToken(s1).type))
               ELSE reportError(s1,
                        "expected relational operator (=, <>, <, <=, >, >=)",
                        "conditions require a comparison")
               : s1 \in {parseExp(s)} })

\* do { parseExp(); } while (match(COMMA));
argLoop(s) ==
    The({ IF ~s1.exc /\ check(s1, "COMMA") THEN argLoop(advance(s1)) ELSE s1
          : s1 \in {parseExp(s)} })

\* do { parseExp(); emit(WRT); } while (match(COMMA));
writeLoop(s) ==
    The({ IF ~s1.exc /\ check(s1, "COMMA") THEN writeLoop(advance(s1)) ELSE s1
          : s1 \in {emit(parseExp(s), "WRT", 0, 0)} })

RECURSIVE readLoop(_)
readLoop(s) ==
    IF s.exc THEN s
    ELSE IF check(s, "IDENTIFIER")
    THEN LET sym == lookup(s, currentToken(s).value) IN
         The({ IF check(s2, "COMMA") THEN readLoop(advance(s2)) ELSE s2
               : s2 \in {advance(
                   IF sym = NoSym
                   THEN reportErrorAt(s, "use of undeclared identifier", "")
                   ELSE IF sym.type = "CONST"
                   THEN reportErrorAt(s, "cannot read into constant",
                                      "it was declared as 'const'")
                   ELSE IF sym.type = "PROCEDURE"
                   THEN reportErrorAt(s, "cannot read into procedure", "")
                   ELSE emit(s, "RED", levelDiff(s, sym), sym.address))} })
    ELSE reportExpected(s, "identifier")

\* the recovery after an assignment target that cannot be assigned, the
\* parser standing on the token after the identifier
skipAssignment(s) ==
    IF check(s, "ASSIGN") \/ check(s, "EQ") THEN parseExp(advance(s)) ELSE s

\* the assignment operator, with the diagnosis of '=' written for ':='
assignOp(s) ==
    IF check(s, "EQ")
    THEN advance(reportError(s, "use ':=' for assignment, not '='",
                             "'=' is for comparison, ':=' is for assignment"))
    ELSE expect(s, "ASSIGN", "':='")

\* backpatch(codeIndex, getNextAddress())
backpatchHere(s, codeIndex) == backpatch(s, codeIndex, getNextAddress(s))

\* the procedure name of a call statement: CAL is emitted here, before the
\* arguments are parsed
callTarget(s) ==
    IF check(s, "IDENTIFIER")
    THEN LET sym == lookup(s, currentToken(s).value) IN
         advance(IF sym = NoSym
                 THEN reportErrorAt(s, "call to undeclared procedure",
                                    "declare procedure before calling it")
                 ELSE IF sym.type # "PROCEDURE"
                 THEN reportErrorAt(s, "is not a procedure",
                                    "only procedures can be called")
                 ELSE emit(s, "CAL", levelDiff(s, sym), sym.address))
    ELSE reportExpected(s, "procedure name")

parseStatement(s) ==
    IF s.exc THEN s
    ELSE IF check(s, "IDENTIFIER")
    THEN LET sym == lookup(s, currentToken(s).value) IN
         IF sym = NoSym
         THEN skipAssignment(advance(
                  reportErrorAt(s, "use of undeclared identifier",
                                "declare it with 'var' before use")))
         ELSE IF sym.type = "CONST"
         THEN skipAssignment(advance(
                  reportErrorAt(s, "cannot assign to constant",
                                "it was declared as 'const'")))
         ELSE IF sym.type = "PROCEDURE"
         THEN skipAssignment(advance(
                  reportErrorAt(s, "cannot assign to procedure",
                                "did you mean 'call'?")))
         ELSE The({ emit(s3, "STO", levelDiff(s3, sym), sym.address)
                    : s3 \in {parseExp(assignOp(advance(s)))} })
    ELSE IF check(s, "IF")
    THEN The({ The({ IF check(s2, "ELSE")
                     THEN The({ backpatchHere(
                                    parseStatement(
                                        backpatchHere(s3, getNextAddress(s1))),
                                    getNextAddress(s2))
                                : s3 \in {emit(advance(s2), "JMP", 0, 0)} })
                     ELSE backpatchHere(s2, getNextAddress(s1))
                     : s2 \in {parseStatement(emit(s1, "JPC", 0, 0))} })
               : s1 \in {expect(parseLexp(advance(s)), "THEN", "'then'")} })
    ELSE IF check(s, "WHILE")
    THEN The({ backpatchHere(
                   emit(parseStatement(emit(s1, "JPC", 0, 0)),
                        "JMP", 0, getNextAddress(advance(s))),
                   getNextAddress(s1))
               : s1 \in {expect(parseLexp(advance(s)), "DO", "'do'")} })
    ELSE IF check(s, "CALL")
    THEN The({ expect(IF ~check(s2, "RPAREN") THEN argLoop(s2) ELSE s2,
                      "RPAREN", "')'")
               : s2 \in {expect(callTarget(advance(s)), "LPAREN", "'('")} })
    ELSE IF check(s, "BEGIN")
    THEN parseBody(s)
    ELSE IF check(s, "READ")
    THEN expect(readLoop(expect(advance(s), "LPAREN", "'('")), "RPAREN", "')'")
    ELSE IF check(s, "WRITE")
    THEN expect(writeLoop(expect(advance(s), "LPAREN", "'('")), "RPAREN", "')'")
    ELSE IF currentToken(s).type \notin {"SEMICOLON", "END", "ELSE", "END_OF_FILE"}
    THEN reportErrorAt(s, "unexpected token in statement",
                       "expected the start of a statement")
    ELSE s

\* while (match(SEMICOLON)) { if (check(END)) break; parseStatement(); }
bodyLoop(s) ==
    IF s.exc THEN s
    ELSE IF check(s, "SEMICOLON")
    THEN IF check(advance(s), "END") THEN advance(s)
         ELSE bodyLoop(parseStatement(advance(s)))
    ELSE s

\* the diagnosis of a body that does not continue with 'end'
bodyEnd(s) ==
    IF check(s, "END") THEN s
    ELSE IF currentToken(s).type \in
              {"IDENTIFIER", "IF", "WHILE", "CALL", "READ", "WRITE", "BEGIN"}
    THEN reportError(s, "expected ';' between statements",
                     "statements must be separated by ';'")
    ELSE reportExpected(s, "'end'")

\* <body> -> begin <statement>{;<statement>}end
parseBody(s) ==
    IF s.exc THEN s
    ELSE expect(bodyEnd(bodyLoop(parseStatement(expect(s, "BEGIN", "'begin'")))),
                "END", "'end'")

\* the value of a constant, the parser standing on its literal
constValue(s, constName, negative) ==
    IF check(s, "INTEGER")
    THEN LET v == stoi(currentToken(s).digits) IN
         IF ~v.ok THEN throw(s)
         ELSE advance(IF lookupCurrent(s, constName) # NoSym
                      THEN reportErrorAt(s, "redefinition",
                               "it is already declared in this scope")
                      ELSE addSymbol(s, constName, "CONST",
                               IF negative THEN -v.val ELSE v.val))
    ELSE reportExpected(s, "integer value")

\* the sign of a constant, then its value
constSigned(s, constName) ==
    constValue(IF check(s, "MINUS") \/ check(s, "PLUS") THEN advance(s) ELSE s,
               constName, check(s, "MINUS"))

\* the definition operator of a constant, with the diagnosis of '='
constOp(s) ==
    IF check(s, "EQ")
    THEN advance(reportErrorAt(s, "use ':=' for constant definition, not '='",
             "PL/0 uses ':=' for both assignment and constant definition"))
    ELSE expect(s, "ASSIGN", "':='")

RECURSIVE condeclLoop(_)
condeclLoop(s) ==
    IF s.exc THEN s
    ELSE IF check(s, "IDENTIFIER")
    THEN The({ IF ~s4.exc /\ check(s4, "COMMA")
               THEN condeclLoop(advance(s4)) ELSE s4
               : s4 \in {constSigned(constOp(advance(s)),
                                     currentToken(s).value)} })
    ELSE reportExpected(s, "identifier")

\* <condecl> -> const <const>{,<const>};
parseCondecl(s) == expectSemicolon(condeclLoop(expect(s, "CONST", "'const'")))

RECURSIVE vardeclLoop(_)
vardeclLoop(s) ==
    IF s.exc THEN s
    ELSE IF check(s, "IDENTIFIER")
    THEN The({ IF check(s1, "COMMA") THEN vardeclLoop(advance(s1)) ELSE s1
               : s1 \in {advance(
                   IF lookupCurrent(s, currentToken(s).value) # NoSym
                   THEN reportErrorAt(s, "redefinition",
                            "it is already declared in this scope")
                   ELSE addSymbol(s, currentToken(s).value, "VAR", 0))} })
    ELSE reportExpected(s, "identifier")

\* <vardecl> -> var <id>{,<id>};
parseVardecl(s) == expectSemicolon(vardeclLoop(expect(s, "VAR", "'var'")))

RECURSIVE paramLoop(_)
\* do { if (check(IDENTIFIER)) { addSymbol(...); advance(); } } while (match(COMMA));
paramLoop(s) ==
    The({ IF ~s1.exc /\ check(s1, "COMMA") THEN paramLoop(advance(s1)) ELSE s1
          : s1 \in {IF check(s, "IDENTIFIER")
                    THEN advance(addSymbol(s, currentToken(s).value, "VAR", 0))
                    ELSE s} })

\* the name of a procedure, entered in the enclosing scope
procName(s) ==
    IF check(s, "IDENTIFIER")
    THEN advance(IF lookupCurrent(s, currentToken(s).value) # NoSym
                 THEN reportErrorAt(s, "redefinition of procedure", "")
                 ELSE addSymbol(s, currentToken(s).value, "PROCEDURE",
                                getNextAddress(s)))
    ELSE reportExpected(s, "procedure name")

\* the parameter list, entered as variables of the procedure's scope
procParams(s) == IF check(s, "IDENTIFIER") THEN paramLoop(s) ELSE s

\* <proc> -> procedure <id>([<id>{,<id>}]);<block>{;<proc>}
parseProc(s) ==
    IF s.exc THEN s
    ELSE expectSemicolon(exitScope(emit(
             parseBlock(expectSemicolon(expect(
                 procParams(enterScope(expect(
                     procName(expect(s, "PROCEDURE", "'procedure'")),
                     "LPAREN", "'('"))),
                 "RPAREN", "')'"))),
             "OPR", 0, 0)))

procLoop(s) ==
    IF s.exc THEN s
    ELSE IF check(s, "PROCEDURE") THEN procLoop(parseProc(s)) ELSE s

\* [<condecl>]
optCondecl(s) == IF check(s, "CONST") THEN parseCondecl(s) ELSE s

\* [<vardecl>]
optVardecl(s) == IF check(s, "VAR") THEN parseVardecl(s) ELSE s

\* an INT that allocates the variables without the frame header
emitINTNoHeader(s) == emit(s, "INT", 0, getCurrentAddress(s) - FirstAddress)

\* INT 0 n for the frame header and the variables of the scope
emitINT(s) == emit(s, "INT", 0, getCurrentAddress(s))

\* the addresses of the variables of the vector sc, in order
varAddresses(sc) ==
    [ i \in 1 .. Len(SelectSeq(sc, LAMBDA y : y.type = "VAR")) |->
        SelectSeq(sc, LAMBDA y : y.type = "VAR")[i].address ]

\* bookkeeping at the point where parseBlock emits INT: the index of the
\* block's leading JMP, the index the INT gets, and the variables the
\* current scope holds
noteBlock(s, jmpAddr) ==
    IF s.exc THEN s
    ELSE [s EXCEPT !.blocks = @ \cup
            {[jmp |-> jmpAddr, int |-> getNextAddress(s),
              vars |-> varAddresses(s.scopes[s.currentLevel + 1])]}]

\* <block> -> [<condecl>][<vardecl>][<proc>]<body>
parseBlock(s) ==
    IF s.exc THEN s
    ELSE parseBody(emitINT(noteBlock(backpatchHere(
             procLoop(optVardecl(optCondecl(emit(s, "JMP", 0, 0)))),
             getNextAddress(s)), getNextAddress(s))))

\* the program name
programName(s) ==
    IF check(s, "IDENTIFIER") THEN advance(s)
    ELSE reportExpected(s, "program name (identifier)")

\* the check that nothing follows the main block
programEnd(s) ==
    IF ~check(s, "END_OF_FILE")
    THEN reportErrorAt(s, "unexpected token after end of program",
                       "program should end after the main block")
    ELSE s

\* a main program that is not closed by a RET
parseProgramNoRet(s) ==
    programEnd(parseBlock(expect(programName(expect(s, "PROGRAM", "'program'")),
                                 "SEMICOLON", "';'")))

\* <prog> -> program <id>; <block>
parseProgram(s) ==
    programEnd(emit(
        parseBlock(expect(programName(expect(s, "PROGRAM", "'program'")),
                          "SEMICOLON", "';'")),
        "OPR", 0, 0))

\* the parser as constructed by main; SymbolTable() enters the global scope
ParserWithCodegen(tokenList) ==
    enterScope(
        [tokens |-> tokenList, pos |-> 1, code |-> <<>>, scopes |-> <<>>,
         addressStack |-> <<>>, currentLevel |-> -1,
         hasErrorFlag |-> FALSE, diags |-> <<>>, exc |-> FALSE, hist |-> {},
         blocks |-> {}])

\* what the caller sees of a call of parse() that ends in state s
parseResult(s) ==
    [s |-> s,
     result |-> IF s.exc THEN "exception"
                ELSE IF s.hasErrorFlag THEN "false" ELSE "true"]

\* parse(): the final parser state, with the outcome of the call
parse(tokenList) == parseResult(parseProgram(ParserWithCodegen(tokenList)))


-----------------------------------------------------------------------------
(* Virtual machine *)

\* a read of data memory (0 outside the modelled memory: such an access
\* is never performed, see Segfault)
Rd(i) == IF i \in DOMAIN stack THEN stack[i] ELSE 0

RECURSIVE base(_, _)
\* Interpreter::base, started at activation record b
base(b, level) ==
    IF level <= 0 THEN b ELSE base(Rd(b + SL_OFFSET), level - 1)

RECURSIVE baseReads(_, _)
\* the slots Interpreter::base reads
baseReads(b, level) ==
    IF level <= 0 THEN {}
    ELSE {b + SL_OFFSET} \cup baseReads(Rd(b + SL_OFFSET), level - 1)

\* the instruction the next step fetches
Fetch == code[P + 1]

\* while (running && P < code.size())
CanStep == pc = "exec" /\ running /\ P >= 0 /\ P < Len(code)

\* the stack slots the instruction ins reads or writes
AccessSet(ins) ==
    CASE ins.op = "LIT" -> {T + 1}
      [] ins.op = "OPR" ->
           IF ins.address = 0 THEN {B + RA_OFFSET, B + DL_OFFSET}
           ELSE IF ins.address \in {1, 6} THEN {T}
           ELSE IF ins.address \in {2, 3, 4, 5, 8, 9, 10, 11, 12, 13}
           THEN {T - 1, T}
           ELSE {}
      [] ins.op = "LOD" ->
           baseReads(B, ins.level) \cup {T + 1, base(B, ins.level) + ins.address}
      [] ins.op = "STO" ->
           baseReads(B, ins.level) \cup {T, base(B, ins.level) + ins.address}
      [] ins.op = "CAL" -> baseReads(B, ins.level) \cup {T + 1, T + 2, T + 3}
      [] ins.op = "RED" ->
           baseReads(B, ins.level) \cup {base(B, ins.level) + ins.address}
      [] ins.op \in {"JPC", "WRT"} -> {T}
      [] OTHER -> {}

InVector(S) == S \subseteq 0 .. (STACK_SIZE - 1)
InMemory(S) == S \subseteq 0 .. MemTop

\* the common part of every instruction: fetch, P++, and the bookkeeping
\* of an access that leaves the vector but stays in mapped memory
Step(op) ==
    /\ CanStep
    /\ Fetch.op = op
    /\ InMemory(AccessSet(Fetch))
    /\ oob' = (oob \/ ~InVector(AccessSet(Fetch)))
    /\ UNCHANGED lexVars
    /\ UNCHANGED reportVars
    /\ UNCHANGED <<opts, source, input, pc, tokens, lexErr, errorCount, warningCount,
                   diags, parseRes, code, scopeHist, blockHist, exitCode>>

\* C++ integer division and remainder (truncation toward zero)
CDiv(a, b) ==
    IF (a >= 0) = (b > 0)
    THEN (IF a >= 0 THEN a ELSE -a) \div (IF b > 0 THEN b ELSE -b)
    ELSE -((IF a >= 0 THEN a ELSE -a) \div (IF b > 0 THEN b ELSE -b))

CRem(a, b) == a - b * CDiv(a, b)

Bool(p) == IF p THEN 1 ELSE 0

\* the result of a binary OPR on second-from-top x and top y
\* a binary OPR whose SUB computes top minus second-from-top
BinOpSubSwapped(a, x, y) ==
    CASE a = 2 -> x + y
      [] a = 3 -> y - x
      [] a = 4 -> x * y
      [] a = 5 -> CDiv(x, y)
      [] a = 8 -> Bool(x = y)
      [] a = 9 -> Bool(x # y)
      [] a = 10 -> Bool(x < y)
      [] a = 11 -> Bool(x >= y)
      [] a = 12 -> Bool(x > y)
      [] a = 13 -> Bool(x <= y)

BinOp(a, x, y) ==
    CASE a = 2 -> x + y
      [] a = 3 -> x - y
      [] a = 4 -> x * y
      [] a = 5 -> CDiv(x, y)
      [] a = 8 -> Bool(x = y)
      [] a = 9 -> Bool(x # y)
      [] a = 10 -> Bool(x < y)
      [] a = 11 -> Bool(x >= y)
      [] a = 12 -> Bool(x > y)
      [] a = 13 -> Bool(x <= y)

executeLIT ==
    /\ Step("LIT")
    /\ P' = P + 1
    /\ T' = T + 1
    /\ stack' = [stack EXCEPT ![T + 1] = Fetch.address]
    /\ UNCHANGED <<B, running, rtError, stdin, stdout>>

\* an OPR whose division by zero reports the error and lets the run go on
executeOPRDivContinues ==
    /\ Step("OPR")
    /\ LET a == Fetch.address IN
       IF a = 0
       THEN /\ T' = B - 1
            /\ P' = stack[B + RA_OFFSET]
            /\ B' = stack[B + DL_OFFSET]
            \* Interpreter::run: a RET that empties the stack ends the run
            /\ running' = ~(B - 1 < 0)
            /\ UNCHANGED <<stack, rtError>>
       ELSE IF a = 1
       THEN /\ stack' = [stack EXCEPT ![T] = -stack[T]]
            /\ P' = P + 1
            /\ UNCHANGED <<T, B, running, rtError>>
       ELSE IF a = 6
       THEN /\ stack' = [stack EXCEPT ![T] = Bool(CRem(stack[T], 2) = 1)]
            /\ P' = P + 1
            /\ UNCHANGED <<T, B, running, rtError>>
       ELSE IF a = 5 /\ stack[T] = 0
       THEN /\ T' = T - 1
            /\ P' = P + 1
            /\ rtError' = "Runtime Error: Division by zero"
            /\ UNCHANGED <<stack, B, running>>
       ELSE IF a \in {2, 3, 4, 5, 8, 9, 10, 11, 12, 13}
       THEN /\ T' = T - 1
            /\ P' = P + 1
            /\ stack' = [stack EXCEPT ![T - 1] = BinOp(a, stack[T - 1], stack[T])]
            /\ UNCHANGED <<B, running, rtError>>
       ELSE /\ P' = P + 1
            /\ rtError' = "Unknown OPR operation"
            /\ running' = FALSE
            /\ UNCHANGED <<stack, T, B>>
    /\ UNCHANGED <<stdin, stdout>>

executeOPR ==
    /\ Step("OPR")
    /\ LET a == Fetch.address IN
       IF a = 0
       THEN /\ T' = B - 1
            /\ P' = stack[B + RA_OFFSET]
            /\ B' = stack[B + DL_OFFSET]
            \* Interpreter::run: a RET that empties the stack ends the run
            /\ running' = ~(B - 1 < 0)
            /\ UNCHANGED <<stack, rtError>>
       ELSE IF a = 1
       THEN /\ stack' = [stack EXCEPT ![T] = -stack[T]]
            /\ P' = P + 1
            /\ UNCHANGED <<T, B, running, rtError>>
       ELSE IF a = 6
       THEN /\ stack' = [stack EXCEPT ![T] = Bool(CRem(stack[T], 2) = 1)]
            /\ P' = P + 1
            /\ UNCHANGED <<T, B, running, rtError>>
       ELSE IF a = 5 /\ stack[T] = 0
       THEN /\ T' = T - 1
            /\ P' = P + 1
            /\ rtError' = "Runtime Error: Division by zero"
            /\ running' = FALSE
            /\ UNCHANGED <<stack, B>>
       ELSE IF a \in {2, 3, 4, 5, 8, 9, 10, 11, 12, 13}
       THEN /\ T' = T - 1
            /\ P' = P + 1
            /\ stack' = [stack EXCEPT ![T - 1] = BinOp(a, stack[T - 1], stack[T])]
            /\ UNCHANGED <<B, running, rtError>>
       ELSE /\ P' = P + 1
            /\ rtError' = "Unknown OPR operation"
            /\ running' = FALSE
            /\ UNCHANGED <<stack, T, B>>
    /\ UNCHANGED <<stdin, stdout>>

executeLOD ==
    /\ Step("LOD")
    /\ P' = P + 1
    /\ T' = T + 1
    /\ stack' = [stack EXCEPT ![T + 1] = stack[base(B, Fetch.level) + Fetch.address]]
    /\ UNCHANGED <<B, running, rtError, stdin, stdout>>

executeSTO ==
    /\ Step("STO")
    /\ P' = P + 1
    /\ stack' = [stack EXCEPT ![base(B, Fetch.level) + Fetch.address] = stack[T]]
    /\ T' = T - 1
    /\ UNCHANGED <<B, running, rtError, stdin, stdout>>

\* a call that stores the caller's top of stack in place of its base
executeCALLinksTop ==
    /\ Step("CAL")
    /\ stack' = [stack EXCEPT ![T + 1] = P + 1,
                              ![T + 2] = T,
                              ![T + 3] = base(B, Fetch.level)]
    /\ B' = T + 1
    /\ P' = Fetch.address
    /\ UNCHANGED <<T, running, rtError, stdin, stdout>>

executeCAL ==
    /\ Step("CAL")
    /\ stack' = [stack EXCEPT ![T + 1] = P + 1,
                              ![T + 2] = B,
                              ![T + 3] = base(B, Fetch.level)]
    /\ B' = T + 1
    /\ P' = Fetch.address
    /\ UNCHANGED <<T, running, rtError, stdin, stdout>>

executeINT ==
    /\ Step("INT")
    /\ P' = P + 1
    /\ T' = T + Fetch.address
    /\ IF T + Fetch.address >= STACK_SIZE
       THEN rtError' = "Runtime Error: Stack overflow" /\ running' = FALSE
       ELSE UNCHANGED <<rtError, running>>
    /\ UNCHANGED <<B, stack, stdin, stdout>>

executeJMP ==
    /\ Step("JMP")
    /\ P' = Fetch.address
    /\ UNCHANGED <<T, B, stack, running, rtError, stdin, stdout>>

\* a conditional jump taken when the top of the stack is not 0
executeJPCNonZero ==
    /\ Step("JPC")
    /\ P' = IF stack[T] # 0 THEN Fetch.address ELSE P + 1
    /\ T' = T - 1
    /\ UNCHANGED <<B, stack, running, rtError, stdin, stdout>>

executeJPC ==
    /\ Step("JPC")
    /\ P' = IF stack[T] = 0 THEN Fetch.address ELSE P + 1
    /\ T' = T - 1
    /\ UNCHANGED <<B, stack, running, rtError, stdin, stdout>>

\* std::cin >> slot; at end of input the slot keeps its value
executeRED ==
    /\ Step("RED")
    /\ P' = P + 1
    /\ IF stdin # <<>>
       THEN /\ stack' = [stack EXCEPT
                           ![base(B, Fetch.level) + Fetch.address] = Head(stdin)]
            /\ stdin' = Tail(stdin)
       ELSE UNCHANGED <<stack, stdin>>
    /\ UNCHANGED <<T, B, running, rtError, stdout>>

executeWRT ==
    /\ Step("WRT")
    /\ P' = P + 1
    /\ stdout' = Append(stdout, stack[T])
    /\ T' = T - 1
    /\ UNCHANGED <<B, stack, running, rtError, stdin>>

\* an access outside the vector is undefined: besides going on in the
\* memory behind the vector (the execute actions), the process may be killed
Segfault ==
    /\ CanStep
    /\ ~InVector(AccessSet(Fetch))
    /\ pc' = "done"
    /\ exitCode' = 139
    /\ oob' = TRUE
    /\ UNCHANGED lexVars
    /\ UNCHANGED reportVars
    /\ UNCHANGED <<opts, source, input, stdin, tokens, lexErr, errorCount, warningCount,
                   diags, parseRes, code, scopeHist, blockHist, P, T, B, stack, running,
                   rtError, stdout>>


-----------------------------------------------------------------------------
(* InputBuffer and the scanning loop at byte granularity.  A byte is its   *)
(* value 0 .. 255; a char of the source is the byte it holds.  The buffer  *)
(* state is a record b:                                                    *)
(*   rd                 bytes the stream has handed out so far             *)
(*   mem                char buffer[2 * BUFFER_SIZE + 2], followed by the  *)
(*                      byte of the object that lies behind it             *)
(*   forward            index of the forward pointer into mem              *)
(*   eof1, eof2, inputExhausted, currentLine, currentColumn,               *)
(*   sourceLines, currentLineBuffer   the members of the same name         *)
(*   ub                 forward has been dereferenced behind mem           *)

SENTINEL == 0

buffer1 == 0
sentinel1 == buffer1 + BUFFER_SIZE
buffer2 == sentinel1 + 1
sentinel2 == buffer2 + BUFFER_SIZE
\* the last index the model follows: one byte behind the array
BufEnd == sentinel2 + 1

\* <cctype> in the "C" locale; a char above 127 is in no class
isspace(c) == c \in {9, 10, 11, 12, 13, 32}
isalpha(c) == c \in 65 .. 90 \/ c \in 97 .. 122
isdigit(c) == c \in 48 .. 57
isalnum(c) == isalpha(c) \/ isdigit(c)

\* *p for a pointer at index i
Deref(b, i) == IF i \in DOMAIN b.mem THEN b.mem[i] ELSE SENTINEL

\* InputBuffer::InputBuffer and reset(): everything zero, sentinels set;
\* behind is the byte that follows the array
InputBuffer(behind) ==
    [ rd |-> 0,
      mem |-> [i \in 0 .. BufEnd |-> IF i = BufEnd THEN behind ELSE 0],
      forward |-> buffer1,
      eof1 |-> FALSE, eof2 |-> FALSE, inputExhausted |-> FALSE,
      currentLine |-> 1, currentColumn |-> 1,
      sourceLines |-> <<>>, currentLineBuffer |-> <<>>,
      ub |-> FALSE ]

\* input->read(start, BUFFER_SIZE) with gcount() = n, and the sentinel and
\* flags the two load functions set after it
readBlock(b, start, sent, n, full) ==
    [b EXCEPT
       !.mem = [i \in DOMAIN b.mem |->
                  IF i >= start /\ i < start + n THEN raw[b.rd + (i - start) + 1]
                  ELSE IF ~full /\ i = start + n THEN SENTINEL
                  ELSE IF full /\ i = sent THEN SENTINEL
                  ELSE b.mem[i]],
       !.rd = b.rd + n,
       !.inputExhausted = ~full]

loadBuffer1(b) ==
    IF b.inputExhausted
    THEN [b EXCEPT !.eof1 = TRUE, !.mem[buffer1] = SENTINEL]
    ELSE IF Len(raw) - b.rd < BUFFER_SIZE
    THEN [readBlock(b, buffer1, sentinel1, Len(raw) - b.rd, FALSE)
            EXCEPT !.eof1 = TRUE]
    ELSE [readBlock(b, buffer1, sentinel1, BUFFER_SIZE, TRUE)
            EXCEPT !.eof1 = FALSE]

loadBuffer2(b) ==
    IF b.inputExhausted
    THEN [b EXCEPT !.eof2 = TRUE, !.mem[buffer2] = SENTINEL]
    ELSE IF Len(raw) - b.rd < BUFFER_SIZE
    THEN [readBlock(b, buffer2, sentinel2, Len(raw) - b.rd, FALSE)
            EXCEPT !.eof2 = TRUE]
    ELSE [readBlock(b, buffer2, sentinel2, BUFFER_SIZE, TRUE)
            EXCEPT !.eof2 = FALSE]

\* initFromFile / initFromStream: reset(), loadBuffer1(), forward = buffer1
initFromStream(behind) == loadBuffer1(InputBuffer(behind))

trackNewline(b, c) ==
    IF c = 10
    THEN [b EXCEPT
            !.sourceLines = IF Len(b.sourceLines) < b.currentLine
                            THEN Append(b.sourceLines, b.currentLineBuffer)
                            ELSE b.sourceLines,
            !.currentLineBuffer = <<>>,
            !.currentLine = b.currentLine + 1,
            !.currentColumn = 1]
    ELSE IF c # 13
    THEN [b EXCEPT !.currentLineBuffer = Append(b.currentLineBuffer, c),
                   !.currentColumn = b.currentColumn + 1]
    ELSE b

\* the buffer after InputBuffer::currentChar(): a sentinel at the end of a
\* block that is not the last one loads the other block
InputBuffer_currentCharState(b) ==
    IF Deref(b, b.forward) # SENTINEL THEN b
    ELSE IF b.forward = sentinel1 /\ ~b.eof1
    THEN [loadBuffer2(b) EXCEPT !.forward = buffer2]
    ELSE IF b.forward = sentinel2 /\ ~b.eof2
    THEN [loadBuffer1(b) EXCEPT !.forward = buffer1]
    ELSE b

\* the char InputBuffer::currentChar() returns
InputBuffer_currentChar(b) ==
    Deref(InputBuffer_currentCharState(b), InputBuffer_currentCharState(b).forward)

\* a switch to the other half that does not load it
switchBufferNoLoad(b, f) ==
    IF f > BufEnd THEN [b EXCEPT !.forward = f, !.ub = TRUE]
    ELSE IF b.mem[f] # SENTINEL THEN [b EXCEPT !.forward = f]
    ELSE IF f = sentinel1 /\ ~b.eof1 THEN [b EXCEPT !.forward = buffer2]
    ELSE IF f = sentinel2 /\ ~b.eof2 THEN [b EXCEPT !.forward = buffer1]
    ELSE [b EXCEPT !.forward = f]

\* the second half of advance(): forward has moved onto position f
switchBuffer(b, f) ==
    IF f > BufEnd THEN [b EXCEPT !.forward = f, !.ub = TRUE]
    ELSE IF b.mem[f] # SENTINEL THEN [b EXCEPT !.forward = f]
    ELSE IF f = sentinel1 /\ ~b.eof1
    THEN [loadBuffer2(b) EXCEPT !.forward = buffer2]
    ELSE IF f = sentinel2 /\ ~b.eof2
    THEN [loadBuffer1(b) EXCEPT !.forward = buffer1]
    ELSE [b EXCEPT !.forward = f]

\* InputBuffer::advance
InputBuffer_advance(b) ==
    switchBuffer(trackNewline(b, Deref(b, b.forward)), b.forward + 1)

\* InputBuffer::isEOF
InputBuffer_isEOF(b) ==
    /\ Deref(b, b.forward) = SENTINEL
    /\ \/ b.forward = sentinel1 /\ b.eof1
       \/ b.forward = sentinel2 /\ b.eof2
       \/ b.forward # sentinel1 /\ b.forward # sentinel2

RECURSIVE peekLoop(_, _, _)
\* the loop of peekChar: the buffer after the advances
peekLoop(b, i, offset) ==
    IF i >= offset THEN b
    ELSE IF InputBuffer_isEOF(InputBuffer_advance(b)) THEN InputBuffer_advance(b)
    ELSE IF i = offset - 1
    THEN InputBuffer_currentCharState(InputBuffer_advance(b))
    ELSE peekLoop(InputBuffer_advance(b), i + 1, offset)

\* the buffer after InputBuffer::peekChar(offset): forward, currentLine and
\* currentColumn are restored, nothing else is
InputBuffer_peekChar(b, offset) ==
    [peekLoop(b, 0, offset) EXCEPT !.forward = b.forward,
                                   !.currentLine = b.currentLine,
                                   !.currentColumn = b.currentColumn]

\* a scan in progress: the buffer and the std::string built so far
Scan(b, v) == [b |-> b, value |-> v]

\* value += currentChar(); advance();
take(sc) ==
    Scan(InputBuffer_advance(InputBuffer_currentCharState(sc.b)),
         Append(sc.value, InputBuffer_currentChar(sc.b)))

RECURSIVE takeN(_, _)
\* for (i = 0; i < n; i++) { value += currentChar(); advance(); }
takeN(sc, n) == IF n <= 0 THEN sc ELSE takeN(take(sc), n - 1)

RECURSIVE takeNChecked(_, _)
\* for (i = 0; i < n && !isEOF(); i++) { value += currentChar(); advance(); }
takeNChecked(sc, n) ==
    IF n <= 0 \/ InputBuffer_isEOF(sc.b) THEN sc
    ELSE takeNChecked(take(sc), n - 1)

RECURSIVE takeAlnum(_)
\* while (isalnum(currentChar()) || currentChar() == '_')
takeAlnum(sc) ==
    IF isalnum(InputBuffer_currentChar(sc.b)) \/ InputBuffer_currentChar(sc.b) = 95
    THEN takeAlnum(take(sc)) ELSE sc

RECURSIVE takeDigits(_)
\* while (isdigit(currentChar()))
takeDigits(sc) ==
    IF isdigit(InputBuffer_currentChar(sc.b)) THEN takeDigits(take(sc)) ELSE sc

\* a token of the byte-level scan: the type and the bytes of its value
ByteToken(type, sc) == [b |-> sc.b, type |-> type, value |-> sc.value]

\* Lexer::readIdentifierOrKeyword (the keyword table is KeywordType)
Lexer_readIdentifierOrKeyword(b) ==
    IF takeAlnum(Scan(b, <<>>)).value[1] = 95
    THEN ByteToken("ERROR", takeAlnum(Scan(b, <<>>)))
    ELSE ByteToken("IDENTIFIER", takeAlnum(Scan(b, <<>>)))

\* Lexer::readNumber
Lexer_readNumber(b) ==
    IF isalpha(InputBuffer_currentChar(takeDigits(Scan(b, <<>>)).b))
       \/ InputBuffer_currentChar(takeDigits(Scan(b, <<>>)).b) = 95
    THEN ByteToken("ERROR", takeAlnum(takeDigits(Scan(b, <<>>))))
    ELSE ByteToken("INTEGER", takeDigits(Scan(b, <<>>)))

getUTF8CharLength(firstByte) ==
    IF firstByte < 128 THEN 1
    ELSE IF firstByte >= 192 /\ firstByte < 224 THEN 2
    ELSE IF firstByte >= 224 /\ firstByte < 240 THEN 3
    ELSE IF firstByte >= 240 /\ firstByte < 248 THEN 4
    ELSE 1

isValidTokenStart(ch) ==
    isalpha(ch) \/ isdigit(ch) \/ ch \in {43, 45, 42, 47, 40, 41, 44, 59, 61, 60, 62, 58}

RECURSIVE utf8Run(_)
\* the loop that collects the invalid characters after a non-ASCII one
utf8Run(sc) ==
    IF InputBuffer_isEOF(sc.b) \/ isspace(InputBuffer_currentChar(sc.b)) THEN sc
    ELSE IF InputBuffer_currentChar(sc.b) < 128
            /\ isValidTokenStart(InputBuffer_currentChar(sc.b))
    THEN sc
    ELSE IF InputBuffer_currentChar(sc.b) >= 128
    THEN utf8Run(takeNChecked(sc, getUTF8CharLength(InputBuffer_currentChar(sc.b))))
    ELSE utf8Run(take(sc))

RECURSIVE asciiRun(_)
\* the loop that collects the invalid characters after an ASCII one
asciiRun(sc) ==
    IF InputBuffer_isEOF(sc.b) \/ isspace(InputBuffer_currentChar(sc.b)) THEN sc
    ELSE IF isValidTokenStart(InputBuffer_currentChar(sc.b))
            \/ InputBuffer_currentChar(sc.b) >= 128
    THEN sc
    ELSE asciiRun(take(sc))

\* the operators of one character
SingleOps ==
    (43 :> "PLUS") @@ (45 :> "MINUS") @@ (42 :> "MULTIPLY") @@ (47 :> "DIVIDE")
    @@ (40 :> "LPAREN") @@ (41 :> "RPAREN") @@ (44 :> "COMMA")
    @@ (59 :> "SEMICOLON") @@ (61 :> "EQ")

\* the second character c2 of an operator that began with ch, sc being the
\* scan after ch
secondChar(ch, c2, sc) ==
    IF ch = 60 /\ c2 = 61 THEN ByteToken("LEQ", take(sc))
    ELSE IF ch = 60 /\ c2 = 62 THEN ByteToken("NEQ", take(sc))
    ELSE IF ch = 60 THEN ByteToken("LT", sc)
    ELSE IF ch = 62 /\ c2 = 61 THEN ByteToken("GEQ", take(sc))
    ELSE IF ch = 62 THEN ByteToken("GT", sc)
    ELSE IF ch = 58 /\ c2 = 61 THEN ByteToken("ASSIGN", take(sc))
    ELSE IF ch = 33 /\ c2 = 61 THEN ByteToken("ERROR", take(sc))
    ELSE IF ch \in {38, 124} /\ c2 = ch THEN ByteToken("ERROR", take(sc))
    ELSE ByteToken("ERROR", sc)

\* Lexer::readOperator, ch being currentChar()
Lexer_readOperator(b, ch) ==
    IF ch \in DOMAIN SingleOps THEN ByteToken(SingleOps[ch], take(Scan(b, <<>>)))
    ELSE IF ch \in {60, 62, 58, 33, 38, 124}
    THEN secondChar(ch, InputBuffer_currentChar(take(Scan(b, <<>>)).b),
                    take(Scan(b, <<>>)))
    ELSE IF ch >= 128
    THEN ByteToken("ERROR", utf8Run(takeN(Scan(b, <<>>), getUTF8CharLength(ch))))
    ELSE ByteToken("ERROR", asciiRun(take(Scan(b, <<>>))))

RECURSIVE Lexer_skipWhitespace(_)
\* Lexer::skipWhitespace
Lexer_skipWhitespace(b) ==
    IF isspace(InputBuffer_currentChar(b))
    THEN Lexer_skipWhitespace(InputBuffer_advance(InputBuffer_currentCharState(b)))
    ELSE InputBuffer_currentCharState(b)

\* the dispatch of the scanning loop on ch = currentChar()
scanToken(b, ch) ==
    IF isalpha(ch) \/ ch = 95 THEN Lexer_readIdentifierOrKeyword(b)
    ELSE IF isdigit(ch) THEN Lexer_readNumber(b)
    ELSE Lexer_readOperator(b, ch)

RECURSIVE skipCount(_)
\* the number of advances Lexer::skipWhitespace makes
skipCount(b) ==
    IF isspace(InputBuffer_currentChar(b))
    THEN 1 + skipCount(InputBuffer_advance(InputBuffer_currentCharState(b)))
    ELSE 0

-----------------------------------------------------------------------------
(* Source programs *)

W(t) == [kind |-> "word", text |-> t, digits |-> <<>>]
U(t) == [kind |-> "uword", text |-> t, digits |-> <<>>]
N(ds) == [kind |-> "number", text |-> "", digits |-> ds]
NW(ds, t) == [kind |-> "numword", text |-> t, digits |-> ds]
O(t) == [kind |-> "op", text |-> t, digits |-> <<>>]

\* the example program of the README
Factorial ==
    << W("program"), W("factorial"), O(";"),
       W("var"), W("n"), O(","), W("result"), O(";"),
       W("procedure"), W("fact"), O("("), W("x"), O(")"), O(";"),
       W("var"), W("temp"), O(";"),
       W("begin"),
         W("if"), W("x"), O("<="), N(<<1>>), W("then"),
           W("result"), O(":="), N(<<1>>),
         W("else"),
         W("begin"),
           W("temp"), O(":="), W("x"), O(";"),
           W("call"), W("fact"), O("("), W("x"), O("-"), N(<<1>>), O(")"), O(";"),
           W("result"), O(":="), W("temp"), O("*"), W("result"),
         W("end"),
       W("end"), O(";"),
       W("begin"),
         W("read"), O("("), W("n"), O(")"), O(";"),
         W("call"), W("fact"), O("("), W("n"), O(")"), O(";"),
         W("write"), O("("), W("result"), O(")"),
       W("end") >>

\* program p; var a; begin <body> end
WithVarA(body) ==
    << W("program"), W("p"), O(";"), W("var"), W("a"), O(";"), W("begin") >>
    \o body \o << W("end") >>

\* scenario 1: x := 2 + 3 * 4; write(x)
Arith ==
    << W("program"), W("p"), O(";"), W("var"), W("x"), O(";"), W("begin"),
       W("x"), O(":="), N(<<2>>), O("+"), N(<<3>>), O("*"), N(<<4>>), O(";"),
       W("write"), O("("), W("x"), O(")"), W("end") >>

\* scenario 3: the sum of 1 .. 10
Sum10 ==
    << W("program"), W("p"), O(";"), W("var"), W("i"), O(","), W("s"), O(";"),
       W("begin"),
       W("i"), O(":="), N(<<1>>), O(";"), W("s"), O(":="), N(<<0>>), O(";"),
       W("while"), W("i"), O("<="), N(<<1, 0>>), W("do"), W("begin"),
         W("s"), O(":="), W("s"), O("+"), W("i"), O(";"),
         W("i"), O(":="), W("i"), O("+"), N(<<1>>),
       W("end"), O(";"),
       W("write"), O("("), W("s"), O(")"), W("end") >>

\* scenario 4: const a := -7; x := a + 10
ConstNeg ==
    << W("program"), W("p"), O(";"), W("const"), W("a"), O(":="), O("-"),
       N(<<7>>), O(";"), W("var"), W("x"), O(";"), W("begin"),
       W("x"), O(":="), W("a"), O("+"), N(<<1, 0>>), O(";"),
       W("write"), O("("), W("x"), O(")"), W("end") >>

\* scenario 5: a := b + 1 with b undeclared
Undeclared == WithVarA(<< W("a"), O(":="), W("b"), O("+"), N(<<1>>) >>)

\* scenario 6: a = 1
AssignTypo == WithVarA(<< W("a"), O("="), N(<<1>>) >>)

EmptyProgram == << W("program"), W("p"), O(";"), W("begin"), W("end") >>

\* 2147483648, one above INT_MAX
AboveIntMax == <<2,1,4,7,4,8,3,6,4,8>>

\* 9223372036854775808, one above LLONG_MAX
AboveLLongMax == <<9,2,2,3,3,7,2,0,3,6,8,5,4,7,7,5,8,0,8>>

BigLiteral == WithVarA(<< W("a"), O(":="), N(AboveIntMax) >>)

MaxLiteral == WithVarA(<< W("write"), O("("), N(IntMaxDigits), O(")") >>)

HugeLiteral == WithVarA(<< W("a"), O(":="), N(AboveLLongMax) >>)

BigConst ==
    << W("program"), W("p"), O(";"), W("const"), W("k"), O(":="),
       N(AboveIntMax), O(";"), W("begin"), W("write"), O("("), W("k"), O(")"),
       W("end") >>

\* a literal above INT_MAX where no number is expected
BigStray == EmptyProgram \o << N(AboveIntMax) >>

\* procedure p(a, a); parameters with one name
DupParam ==
    << W("program"), W("m"), O(";"),
       W("procedure"), W("p"), O("("), W("a"), O(","), W("a"), O(")"), O(";"),
       W("begin"), W("a"), O(":="), N(<<1>>), O(";"),
                   W("write"), O("("), W("a"), O(")"), W("end"), O(";"),
       W("begin"), W("call"), W("p"), O("("), O(")"), W("end") >>

\* redeclarations the parser rejects: var a, a; const a; procedure a
DupDecls ==
    << W("program"), W("m"), O(";"),
       W("const"), W("k"), O(":="), N(<<1>>), O(","), W("k"), O(":="), N(<<2>>), O(";"),
       W("var"), W("a"), O(","), W("a"), O(","), W("k"), O(";"),
       W("procedure"), W("a"), O("("), O(")"), O(";"),
       W("var"), W("a"), O(";"),
       W("begin"), W("a"), O(":="), N(<<1>>), W("end"), O(";"),
       W("begin"), W("a"), O(":="), W("k"), W("end") >>

\* rejected redeclarations followed by further variables:
\* var a, a, b; procedure q(x); var x, y; ...
RedeclThenVar ==
    << W("program"), W("m"), O(";"),
       W("var"), W("a"), O(","), W("a"), O(","), W("b"), O(";"),
       W("procedure"), W("q"), O("("), W("x"), O(")"), O(";"),
       W("var"), W("x"), O(","), W("y"), O(";"),
       W("begin"), W("y"), O(":="), W("x"), W("end"), O(";"),
       W("begin"), W("b"), O(":="), N(<<1>>), W("end") >>

LexErrors ==
    { WithVarA(<< W("a"), O(":"), N(<<1>>) >>),
      WithVarA(<< W("a"), O(":="), O("!="), N(<<1>>) >>),
      WithVarA(<< W("a"), O(":="), O("!") >>),
      WithVarA(<< W("a"), O(":="), N(<<1>>), O("&&"), N(<<1>>) >>),
      WithVarA(<< O("{"), W("a"), O(":="), N(<<1>>) >>),
      WithVarA(<< U("_x"), O(":="), N(<<1>>) >>),
      WithVarA(<< W("a"), O(":="), NW(<<1, 2>>, "12ab") >>),
      WithVarA(<< W("a"), O(":="), O("#") >>),
      HugeLiteral }

\* sources that are not programs
Garbage ==
    { <<>>, << W("begin") >>, << W("program") >>, << W("end"), W("end") >>,
      << W("program"), W("p"), O(";"), W("begin"), W("if") >>,
      << W("program"), W("p"), O(";"), W("const"), O(";"), W("var"), N(<<1>>),
         W("procedure"), O("("), W("begin"), W("end") >>,
      << W("program"), W("p"), O(";"), W("begin"), W("while"), N(<<1>>),
         W("do"), W("call"), O("("), O(","), O(")"), O(";"),
         W("read"), O("("), N(<<1>>), O(")"), O(";"),
         W("write"), O("("), O(")"), W("else"), W("end"), W("end") >>,
      EmptyProgram \o << O(";") >> }

\* mutual recursion across nesting depths: r (depth 2) calls p (declared at
\* depth 0) and uses the variables of p and of the main program
\*   program n; var g;
\*   procedure p(); var u;
\*     procedure r();
\*     begin g := g + 1; u := u + g; if g < 3 then call p() end;
\*   begin u := 10; call r(); write(u) end;
\*   begin call p(); write(g) end
NestedRec ==
    << W("program"), W("n"), O(";"), W("var"), W("g"), O(";"),
       W("procedure"), W("p"), O("("), O(")"), O(";"), W("var"), W("u"), O(";"),
       W("procedure"), W("r"), O("("), O(")"), O(";"),
       W("begin"),
         W("g"), O(":="), W("g"), O("+"), N(<<1>>), O(";"),
         W("u"), O(":="), W("u"), O("+"), W("g"), O(";"),
         W("if"), W("g"), O("<"), N(<<3>>), W("then"),
           W("call"), W("p"), O("("), O(")"),
       W("end"), O(";"),
       W("begin"),
         W("u"), O(":="), N(<<1, 0>>), O(";"),
         W("call"), W("r"), O("("), O(")"), O(";"),
         W("write"), O("("), W("u"), O(")"),
       W("end"), O(";"),
       W("begin"),
         W("call"), W("p"), O("("), O(")"), O(";"),
         W("write"), O("("), W("g"), O(")"),
       W("end") >>

Curated ==
    { Factorial, Arith, Sum10, ConstNeg, Undeclared, AssignTypo, EmptyProgram,
      BigLiteral, MaxLiteral, BigConst, BigStray, DupParam, DupDecls,
      NestedRec, RedeclThenVar }
    \cup LexErrors \cup Garbage

\* The generated programs share these declarations:
\*   const c := 2; var a, b;
\*   procedure q(x); var t;
\*     procedure r(); begin a := a + 1; t := a; x := t end;
\*   begin call r(); if a < 3 then call q(a) end;
\*   procedure inf(); begin call inf() end;
Prelude ==
    << W("program"), W("g"), O(";"),
       W("const"), W("c"), O(":="), N(<<2>>), O(";"),
       W("var"), W("a"), O(","), W("b"), O(";"),
       W("procedure"), W("q"), O("("), W("x"), O(")"), O(";"),
       W("var"), W("t"), O(";"),
       W("procedure"), W("r"), O("("), O(")"), O(";"),
       W("begin"),
         W("a"), O(":="), W("a"), O("+"), N(<<1>>), O(";"),
         W("t"), O(":="), W("a"), O(";"),
         W("x"), O(":="), W("t"),
       W("end"), O(";"),
       W("begin"),
         W("call"), W("r"), O("("), O(")"), O(";"),
         W("if"), W("a"), O("<"), N(<<3>>), W("then"),
           W("call"), W("q"), O("("), W("a"), O(")"),
       W("end"), O(";"),
       W("procedure"), W("inf"), O("("), O(")"), O(";"),
       W("begin"), W("call"), W("inf"), O("("), O(")"), W("end"), O(";"),
       W("begin") >>

\* the statements a generated main body is made of
StmtPool ==
    { << W("a"), O(":="), W("a"), O("+"), N(<<1>>) >>,
      << W("b"), O(":="), W("c"), O("*"), W("a"), O("-"), N(<<1>>) >>,
      << W("call"), W("q"), O("("), W("a"), O(")") >>,
      << W("call"), W("inf"), O("("), O(")") >>,
      << W("read"), O("("), W("a"), O(")") >>,
      << W("write"), O("("), W("a"), O(","), W("b"), O(")") >>,
      << W("if"), W("a"), O("<"), N(<<2>>), W("then"), W("b"), O(":="), N(<<1>>),
         W("else"), W("b"), O(":="), N(<<2>>) >>,
      << W("while"), W("a"), O("<"), N(<<2>>), W("do"),
         W("a"), O(":="), W("a"), O("+"), N(<<1>>) >>,
      << W("b"), O(":="), W("b"), O("/"), W("a") >>,
      << W("a"), O("="), N(<<1>>) >>,
      << W("x"), O(":="), N(<<1>>) >>,
      << W("while"), W("b"), O("<>"), N(<<5>>), W("do"), W("begin"),
         W("call"), W("q"), O("("), N(<<1>>), O(","), N(<<2>>), O(")"), O(";"),
         W("b"), O(":="), W("b"), O("+"), N(<<1>>), W("end") >>,
      << W("if"), W("odd"), W("a"), W("then"),
         W("write"), O("("), O("-"), W("a"), O(">="), N(<<0>>), O(")") >> }

RECURSIVE Bodies(_)
\* the statement sequences of at most n statements, joined by ';'
Bodies(n) ==
    IF n = 0 THEN { <<>> }
    ELSE LET shorter == Bodies(n - 1) IN
         shorter \cup { b \o (IF b = <<>> THEN <<>> ELSE << O(";") >>) \o st :
                          b \in shorter, st \in StmtPool }

Generated == { Prelude \o b \o << W("end") >> : b \in Bodies(MaxStmts) }

\* the final phases the options select: --lexer-only, --parse-only,
\* --no-run, --run
\* program p; begin write(a op1 b op2 c) end, with one-digit literals
ExprProgram(a, op1, b, op2, c) ==
    << W("program"), W("p"), O(";"), W("begin"),
       W("write"), O("("), N(<<a>>), O(op1), N(<<b>>), O(op2), N(<<c>>), O(")"),
       W("end") >>

Operands == 1 .. MaxOperand

\* a + b * c, a - b - c and a / b / c over the operands
ExprPrograms ==
    { ExprProgram(a, ops[1], b, ops[2], c) :
        a \in Operands, b \in Operands, c \in Operands,
        ops \in { <<"+", "*">>, <<"-", "-">>, <<"/", "/">> } }

\* if a - b relop c then write(1); write(2)
RelProgram(a, b, relop, c) ==
    << W("program"), W("p"), O(";"), W("begin"),
       W("if"), N(<<a>>), O("-"), N(<<b>>), O(relop), N(<<c>>), W("then"),
       W("write"), O("("), N(<<1>>), O(")"), O(";"),
       W("write"), O("("), N(<<2>>), O(")"),
       W("end") >>

RelOps == {"=", "<>", "<", "<=", ">", ">="}

RelPrograms ==
    { RelProgram(a, b, relop, c) :
        a \in Operands, b \in Operands, c \in Operands, relop \in RelOps }

\* if odd a - b then write(1); write(2)
OddProgram(a, b) ==
    << W("program"), W("p"), O(";"), W("begin"),
       W("if"), W("odd"), N(<<a>>), O("-"), N(<<b>>), W("then"),
       W("write"), O("("), N(<<1>>), O(")"), O(";"),
       W("write"), O("("), N(<<2>>), O(")"),
       W("end") >>

OddPrograms == { OddProgram(a, b) : a \in Operands, b \in Operands }

\* write(a / b); write(2)
DivProgram(a, b) ==
    << W("program"), W("p"), O(";"), W("begin"),
       W("write"), O("("), N(<<a>>), O("/"), N(<<b>>), O(")"), O(";"),
       W("write"), O("("), N(<<2>>), O(")"),
       W("end") >>

DivPrograms == { DivProgram(a, b) : a \in Operands, b \in {0} \cup Operands }

Modes ==
    { [lexerOnly |-> TRUE, parseOnly |-> FALSE, runProgram |-> FALSE],
      [lexerOnly |-> FALSE, parseOnly |-> TRUE, runProgram |-> FALSE],
      [lexerOnly |-> FALSE, parseOnly |-> FALSE, runProgram |-> FALSE],
      [lexerOnly |-> FALSE, parseOnly |-> FALSE, runProgram |-> TRUE] }

RunMode == [lexerOnly |-> FALSE, parseOnly |-> FALSE, runProgram |-> TRUE]

Inputs == { <<>> } \cup { <<n>> : n \in 0 .. MaxInput }

\* the inputs tried with the generated programs
GenInputs == { <<>>, <<1>> }

-----------------------------------------------------------------------------
(* Driver: main *)

Init ==
    /\ \/ source \in Curated /\ opts \in Modes /\ input \in Inputs
       \/ source \in Generated /\ opts = RunMode /\ input \in GenInputs
       \/ /\ source \in ExprPrograms \cup RelPrograms \cup OddPrograms
                       \cup DivPrograms
          /\ opts = RunMode /\ input = <<>>
    /\ stdin = input
    /\ pc = "lex"
    /\ tokens = <<>>
    /\ lexErr = FALSE
    /\ errorCount = 0
    /\ warningCount = 0
    /\ diags = <<>>
    /\ parseRes = "none"
    /\ code = <<>>
    /\ scopeHist = {} /\ blockHist = {}
    /\ P = 0 /\ T = -1 /\ B = 0
    /\ stack = [i \in 0 .. MemTop |-> 0]
    /\ running = FALSE
    /\ rtError = ""
    /\ oob = FALSE
    /\ stdout = <<>>
    /\ exitCode = -1
    /\ raw = <<>>
    /\ buf = InputBuffer(0)
    /\ lexPc = "idle"
    /\ lexTokens = <<>>
    /\ skipped = 0
    /\ delivered = <<>>
    /\ peeks = 0
    /\ sourceLine = <<>> /\ column = 1 /\ visualColumn = -1

vmVars == <<P, T, B, stack, running, rtError, oob, stdout, stdin>>

\* DiagnosticEngine::report, applied to the diagnostics ds of a phase
reportAll(ds) ==
    /\ diags' = diags \o ds
    /\ errorCount' = errorCount + CountLevel(ds, "error")
    /\ warningCount' = warningCount + CountLevel(ds, "warning")

\* PHASE 1: lexer.tokenize()
Tokenize ==
    /\ pc = "lex"
    /\ LET r == tokenize(source) IN
       /\ tokens' = r.toks
       /\ lexErr' = r.err
       /\ reportAll(r.diags)
    /\ pc' = "setSource"
    /\ UNCHANGED lexVars
    /\ UNCHANGED reportVars
    /\ UNCHANGED <<opts, source, input, parseRes, code, scopeHist, blockHist, exitCode>>
    /\ UNCHANGED vmVars

\* diagnostics.setSource(...): splitSource, then reset()
SetSource ==
    /\ pc = "setSource"
    /\ errorCount' = 0
    /\ warningCount' = 0
    /\ pc' = "lexCheck"
    /\ UNCHANGED lexVars
    /\ UNCHANGED reportVars
    /\ UNCHANGED <<opts, source, input, tokens, lexErr, diags, parseRes, code,
                   scopeHist, blockHist, exitCode>>
    /\ UNCHANGED vmVars

\* a faulty check after lexing: the tally of the diagnostics engine, which
\* setSource has reset, in place of the flag of the lexer
TallyHasErrors == errorCount > 0

\* Lexer::hasErrors
LexerHasErrors == lexErr

\* the checks after lexing: errors, then --lexer-only
LexCheck ==
    /\ pc = "lexCheck"
    /\ IF LexerHasErrors THEN pc' = "done" /\ exitCode' = 1
       ELSE IF opts.lexerOnly THEN pc' = "done" /\ exitCode' = 0
       ELSE pc' = "parse" /\ UNCHANGED exitCode
    /\ UNCHANGED lexVars
    /\ UNCHANGED reportVars
    /\ UNCHANGED <<opts, source, input, tokens, lexErr, errorCount, warningCount,
                   diags, parseRes, code, scopeHist, blockHist>>
    /\ UNCHANGED vmVars

\* PHASE 2: parser.parse()
Parse ==
    /\ pc = "parse"
    /\ LET r == parse(tokens) IN
       /\ parseRes' = r.result
       /\ code' = r.s.code
       /\ scopeHist' = r.s.hist
       /\ blockHist' = r.s.blocks
       /\ reportAll(r.s.diags)
    /\ pc' = "parseCheck"
    /\ UNCHANGED lexVars
    /\ UNCHANGED reportVars
    /\ UNCHANGED <<opts, source, input, tokens, lexErr, exitCode>>
    /\ UNCHANGED vmVars

\* after parse(): the catch block, the parse error check, --parse-only,
\* --no-run; otherwise Interpreter::loadCode and the start of run()
ParseCheck ==
    /\ pc = "parseCheck"
    /\ IF parseRes = "exception" THEN pc' = "done" /\ exitCode' = 1
       ELSE IF parseRes = "false" THEN pc' = "done" /\ exitCode' = 1
       ELSE IF opts.parseOnly THEN pc' = "done" /\ exitCode' = 0
       ELSE IF ~opts.runProgram THEN pc' = "done" /\ exitCode' = 0
       ELSE pc' = "exec" /\ UNCHANGED exitCode
    /\ running' = (parseRes = "true" /\ ~opts.parseOnly /\ opts.runProgram)
    /\ UNCHANGED lexVars
    /\ UNCHANGED reportVars
    /\ UNCHANGED <<opts, source, input, tokens, lexErr, errorCount, warningCount,
                   diags, parseRes, code, scopeHist, blockHist>>
    /\ UNCHANGED <<P, T, B, stack, rtError, oob, stdout, stdin>>

\* the run loop has ended: main returns 0
RunExit ==
    /\ pc = "exec"
    /\ ~CanStep
    /\ pc' = "done"
    /\ exitCode' = 0
    /\ UNCHANGED lexVars
    /\ UNCHANGED reportVars
    /\ UNCHANGED <<opts, source, input, tokens, lexErr, errorCount, warningCount,
                   diags, parseRes, code, scopeHist, blockHist>>
    /\ UNCHANGED vmVars

Next ==
    \/ Tokenize
    \/ SetSource
    \/ LexCheck
    \/ Parse
    \/ ParseCheck
    \/ executeLIT
    \/ executeOPR
    \/ executeLOD
    \/ executeSTO
    \/ executeCAL
    \/ executeINT
    \/ executeJMP
    \/ executeJPC
    \/ executeRED
    \/ executeWRT
    \/ Segfault
    \/ RunExit

Spec == Init /\ [][Next]_vars

-----------------------------------------------------------------------------
(* The input buffer and the scanning loop run on their own: a file of at   *)
(* most MaxBytes bytes is either tokenized or delivered byte by byte, with *)
(* at most MaxPeeks calls of peekChar on the way.                          *)

\* the bytes of the files that are tokenized: a letter, a digit, a blank,
\* ':' and '=', and the lead byte of a 3-byte UTF-8 sequence
ScanBytes == {97, 49, 32, 58, 61, 228}

\* the bytes of the files that are delivered: a letter and a newline
DeliverBytes == {97, 10}

\* the values the byte behind the buffer array may have
BehindBytes == {0, 97}

Files(bytes) == UNION { [1 .. n -> bytes] : n \in 0 .. MaxBytes }

\* @, #, a three-byte glyph (U+4E2D), a letter and a space
RunUnits == { <<64>>, <<35>>, <<228, 184, 173>>, <<97>>, <<32>> }

\* well-formed files of up to three of these units
RunFiles ==
    { <<>> } \cup RunUnits \cup { u \o v : u \in RunUnits, v \in RunUnits }
    \cup { u \o v \o w : u \in RunUnits, v \in RunUnits, w \in RunUnits }

driverVars == <<opts, source, input, stdin, pc, tokens, lexErr, errorCount,
                warningCount, diags, parseRes, code, scopeHist, blockHist, P, T, B, stack,
                running, rtError, oob, stdout, exitCode>>

LexInit ==
    /\ opts = RunMode /\ source = <<>> /\ input = <<>> /\ stdin = <<>>
    /\ pc = "lex" /\ tokens = <<>> /\ lexErr = FALSE
    /\ errorCount = 0 /\ warningCount = 0 /\ diags = <<>>
    /\ parseRes = "none" /\ code = <<>> /\ scopeHist = {} /\ blockHist = {}
    /\ P = 0 /\ T = -1 /\ B = 0
    /\ stack = [i \in 0 .. MemTop |-> 0]
    /\ running = FALSE /\ rtError = "" /\ oob = FALSE
    /\ stdout = <<>> /\ exitCode = -1
    /\ \/ /\ lexPc = "tokenize"
          /\ raw \in Files(ScanBytes)
          /\ \E behind \in BehindBytes : buf = initFromStream(behind)
       \/ /\ lexPc = "tokenize"
          /\ raw \in RunFiles
          /\ buf = initFromStream(0)
       \/ /\ lexPc = "deliver"
          /\ raw \in Files(DeliverBytes)
          /\ buf = initFromStream(0)
    /\ lexTokens = <<>>
    /\ skipped = 0
    /\ delivered = <<>>
    /\ peeks = 0
    /\ sourceLine = <<>> /\ column = 1 /\ visualColumn = -1

\* one pass of the loop of Lexer::tokenize that finds a character after the
\* whitespace and reads a token
Dispatch ==
    /\ lexPc = "tokenize"
    /\ ~InputBuffer_isEOF(buf)
    /\ ~InputBuffer_isEOF(Lexer_skipWhitespace(buf))
    /\ \E tok \in { scanToken(Lexer_skipWhitespace(buf),
                              InputBuffer_currentChar(Lexer_skipWhitespace(buf))) } :
          /\ buf' = tok.b
          /\ lexTokens' = Append(lexTokens, [type |-> tok.type, value |-> tok.value])
          /\ lexPc' = IF tok.b.ub THEN "ub" ELSE "tokenize"
    /\ skipped' = skipped + skipCount(buf)
    /\ UNCHANGED <<raw, delivered, peeks>>
    /\ UNCHANGED driverVars
    /\ UNCHANGED reportVars

\* the end of the loop (at its head or after skipWhitespace) and the push
\* of the END_OF_FILE token
Finish ==
    /\ lexPc = "tokenize"
    /\ \/ InputBuffer_isEOF(buf)
       \/ InputBuffer_isEOF(Lexer_skipWhitespace(buf))
    /\ buf' = IF InputBuffer_isEOF(buf) THEN buf ELSE Lexer_skipWhitespace(buf)
    /\ skipped' = skipped + (IF InputBuffer_isEOF(buf) THEN 0 ELSE skipCount(buf))
    /\ lexTokens' = Append(lexTokens, [type |-> "END_OF_FILE", value |-> <<>>])
    /\ lexPc' = "done"
    /\ UNCHANGED <<raw, delivered, peeks>>
    /\ UNCHANGED driverVars
    /\ UNCHANGED reportVars

\* c = currentChar(); advance();
Deliver ==
    /\ lexPc = "deliver"
    /\ ~InputBuffer_isEOF(buf)
    /\ delivered' = Append(delivered, InputBuffer_currentChar(buf))
    /\ buf' = InputBuffer_advance(InputBuffer_currentCharState(buf))
    /\ UNCHANGED <<raw, lexPc, lexTokens, skipped, peeks>>
    /\ UNCHANGED driverVars
    /\ UNCHANGED reportVars

\* peekChar(offset)
Peek ==
    /\ lexPc = "deliver"
    /\ peeks < MaxPeeks
    /\ \E offset \in 1 .. MaxOffset : buf' = InputBuffer_peekChar(buf, offset)
    /\ peeks' = peeks + 1
    /\ UNCHANGED <<raw, lexPc, lexTokens, skipped, delivered>>
    /\ UNCHANGED driverVars
    /\ UNCHANGED reportVars

\* isEOF() holds: the delivery is over
DeliverEnd ==
    /\ lexPc = "deliver"
    /\ InputBuffer_isEOF(buf)
    /\ lexPc' = "done"
    /\ UNCHANGED <<raw, buf, lexTokens, skipped, delivered, peeks>>
    /\ UNCHANGED driverVars
    /\ UNCHANGED reportVars

\* advance() called although isEOF() holds, as the loop of readOperator
\* over the bytes of a character does
AdvanceAtEOF ==
    /\ lexPc = "deliver"
    /\ InputBuffer_isEOF(buf)
    /\ buf' = InputBuffer_advance(buf)
    /\ lexPc' = "past"
    /\ UNCHANGED <<raw, lexTokens, skipped, delivered, peeks>>
    /\ UNCHANGED driverVars
    /\ UNCHANGED reportVars

LexNext ==
    \/ Dispatch
    \/ Finish
    \/ Deliver
    \/ Peek
    \/ DeliverEnd
    \/ AdvanceAtEOF

LexSpec == LexInit /\ [][LexNext]_vars

-----------------------------------------------------------------------------
(* DiagnosticEngine::report on a source line: the caret line *)

RECURSIVE caretIndent(_, _, _)
\* the loop of report() that computes visualColumn: i is the 0-based byte
\* index, col the column of the diagnostic
caretIndent(line, col, i) ==
    IF ~(i < col - 1 /\ i < Len(line)) THEN 0
    ELSE (IF line[i + 1] = 9 THEN 4 ELSE 1) + caretIndent(line, col, i + 1)

\* a letter, a tab, and glyphs of two, three and four bytes
LineUnits ==
    { <<97>>, <<9>>, <<195, 164>>, <<228, 184, 173>>, <<240, 159, 152, 128>> }

\* the sequences of up to two units
UnitSeqs == { <<>> } \cup LineUnits \cup { u \o v : u \in LineUnits, v \in LineUnits }

ReportInit ==
    /\ opts = RunMode /\ source = <<>> /\ input = <<>> /\ stdin = <<>>
    /\ pc = "parse" /\ tokens = <<>> /\ lexErr = FALSE
    /\ errorCount = 0 /\ warningCount = 0 /\ diags = <<>>
    /\ parseRes = "none" /\ code = <<>> /\ scopeHist = {} /\ blockHist = {}
    /\ P = 0 /\ T = -1 /\ B = 0
    /\ stack = [i \in 0 .. MemTop |-> 0]
    /\ running = FALSE /\ rtError = "" /\ oob = FALSE
    /\ stdout = <<>> /\ exitCode = -1
    /\ raw = <<>> /\ buf = InputBuffer(0) /\ lexPc = "idle"
    /\ lexTokens = <<>> /\ skipped = 0 /\ delivered = <<>> /\ peeks = 0
    \* the diagnostic points at the character behind the prefix pre
    /\ \E pre \in UnitSeqs, post \in UnitSeqs :
          /\ sourceLine = pre \o post
          /\ column = Len(pre) + 1
    /\ visualColumn = -1

\* report(diag) for an error on the line sourceLine
Report ==
    /\ visualColumn = -1
    /\ visualColumn' = caretIndent(sourceLine, column, 0)
    /\ errorCount' = errorCount + 1
    /\ UNCHANGED <<sourceLine, column>>
    /\ UNCHANGED lexVars
    /\ UNCHANGED <<opts, source, input, stdin, pc, tokens, lexErr, warningCount,
                   diags, parseRes, code, scopeHist, blockHist, P, T, B, stack,
                   running, rtError, oob, stdout, exitCode>>

ReportNext == Report

ReportSpec == ReportInit /\ [][ReportNext]_vars

-----------------------------------------------------------------------------
(* Properties *)

Done == pc = "done"

\* an error of phase ph has been written to stderr
ErrorReported(ph) ==
    \E i \in DOMAIN diags : diags[i].phase = ph /\ diags[i].level = "error"

RECURSIVE Factorial_n(_)
\* n! for n >= 0
Factorial_n(n) == IF n <= 1 THEN 1 ELSE n * Factorial_n(n - 1)

\* C1: the README factorial program, compiled and run with one integer
\* n >= 1 on standard input, writes n! (120 for n = 5) and exits 0.
C1_FactorialWritesNFactorial ==
    (Done /\ source = Factorial /\ opts.runProgram
          /\ Len(input) = 1 /\ input[1] >= 1)
    => (stdout = << Factorial_n(input[1]) >> /\ exitCode = 0)

\* C2: when the VM has hit a runtime error the exit code of the process is
\* 1, and an exit code of 0 means that no runtime error happened.
C2_RuntimeErrorExitsOne ==
    Done => /\ (rtError # "" => exitCode = 1)
            /\ (exitCode = 0 => rtError = "")

\* C3: no stack slot outside 0 .. capacity-1 is ever read or written, and
\* a top of stack at or past the capacity means that the VM has halted
\* with "Stack overflow".
C3_NoAccessOutsideStack ==
    /\ ~oob
    /\ CanStep => InVector(AccessSet(Fetch))
    /\ (pc = "exec" /\ T >= STACK_SIZE)
          => (~running /\ rtError = "Runtime Error: Stack overflow")

\* C4: no exception escapes the parser: whenever parse() has been called
\* on the tokens of a source without lexical error, it has returned true
\* or false.
C4_NoExceptionEscapesParse ==
    parseRes # "none" => parseRes \in {"true", "false"}

\* C5: a source whose only diagnostics are warnings is not blocked: the
\* driver reaches the chosen final phase and exits 0.
C5_WarningsDoNotBlock ==
    (Done /\ diags # <<>> /\ \A i \in DOMAIN diags : diags[i].level = "warning")
    => /\ exitCode = 0
       /\ ~opts.lexerOnly => parseRes = "true"

\* C6: phases are gated by errors.  Once the lexer has reported an error
\* the parser is never run, once the parser has reported an error the VM
\* is never run, and in both cases the driver exits 1; the VM runs only
\* after a lexing and a parsing phase without errors.
C6_PhasesGatedByErrors ==
    /\ ErrorReported("lex") =>
          /\ parseRes = "none"
          /\ pc \notin {"parse", "parseCheck", "exec"}
          /\ Done => exitCode = 1
    /\ ErrorReported("parse") =>
          /\ pc # "exec"
          /\ ~running
          /\ Done => exitCode = 1
    /\ pc = "exec" =>
          /\ ~ErrorReported("lex")
          /\ ~ErrorReported("parse")
          /\ parseRes = "true"

\* a compilation in run mode that the parser stopped: the lexer passed,
\* the parser reported an error, the driver exited 1
C6_Witness ==
    /\ Done /\ opts.runProgram
    /\ ~ErrorReported("lex") /\ ErrorReported("parse")
    /\ exitCode = 1

\* C7: no scope of the symbol table ever contains two symbols with the
\* same name (constants, variables, procedure names and parameters).
C7_ScopeNamesUnique ==
    \A sc \in scopeHist :
        \A i, j \in DOMAIN sc : i # j => sc[i].name # sc[j].name

\* C8: for `program p; var a; begin a = 1 end` the parser reports the
\* error "use ':=' for assignment, ..." with the fix-it replacement ":="
\* (the `try:` line), and the compile exits 1.
C8_AssignTypoHasFixIt ==
    (Done /\ source = AssignTypo /\ ~opts.lexerOnly)
    => /\ \E i \in DOMAIN diags :
              /\ diags[i].level = "error"
              /\ diags[i].message = "use ':=' for assignment, not '='"
              /\ diags[i].suggestionCode = ":="
       /\ exitCode = 1

\* C9: when parse() has returned, every JMP and JPC of the instruction
\* vector is backpatched: its address is an instruction index, and it is
\* not the placeholder 0 (a patched jump never targets instruction 0, the
\* entry jump of the main block).
C9_JumpsBackpatched ==
    parseRes \in {"true", "false"} =>
        \A i \in DOMAIN code :
            code[i].op \in {"JMP", "JPC"} =>
                (code[i].address > 0 /\ code[i].address < Len(code))

\* parse() has returned true with an if/else and a while in the code:
\* a JPC, and a backward JMP closing a loop
C9_Witness ==
    /\ parseRes = "true"
    /\ \E i, j \in DOMAIN code :
          /\ code[i].op = "JPC" /\ code[i].address > i
          /\ code[j].op = "JMP" /\ code[j].address < j - 1

RECURSIVE liveFrames(_, _)
\* the bases of the activation records on the dynamic chain from b
liveFrames(b, fuel) ==
    IF b <= 0 \/ fuel = 0 THEN {b}
    ELSE {b} \cup liveFrames(Rd(b + DL_OFFSET), fuel - 1)

\* C10: whenever a LOD L A or STO L A is about to execute, base(L) is the
\* base of a live activation record, A >= 3 (not a header word), and the
\* slot base(L)+A lies in 0 .. T.
C10_LodStoAddressVariable ==
    (CanStep /\ Fetch.op \in {"LOD", "STO"}) =>
        /\ base(B, Fetch.level) \in liveFrames(B, MemTop)
        /\ Fetch.address >= 3
        /\ base(B, Fetch.level) + Fetch.address >= 0
        /\ base(B, Fetch.level) + Fetch.address <= T

\* a STO to a variable of an enclosing procedure, executed in a nested call
C10_Witness ==
    /\ CanStep /\ Fetch.op = "STO" /\ Fetch.level >= 1
    /\ B > 0 /\ base(B, Fetch.level) > 0


-----------------------------------------------------------------------------
(* The block structure of the generated code.  Every block starts with a   *)
(* JMP over its declarations to its INT (parseBlock); the procedures       *)
(* declared in a block lie between the two.  Addresses are 0-based.        *)

Ins(a) == code[a + 1]

\* the entry addresses of the blocks: the main program (0) and the procedures
Entries ==
    { e \in 0 .. Len(code) - 1 :
        /\ Ins(e).op = "JMP"
        /\ Ins(e).address \in 0 .. Len(code) - 1
        /\ Ins(Ins(e).address).op = "INT" }

\* the address of the INT of block e: the start of its body
BodyStart(e) == Ins(e).address

\* the block whose body contains instruction a: the last body start at or
\* before a (bodies follow one another, each closed by its RET)
Owner(a) ==
    CHOOSE e \in Entries :
        /\ BodyStart(e) <= a
        /\ \A f \in Entries : BodyStart(f) <= a => BodyStart(f) <= BodyStart(e)

\* the block that declares procedure e (0 for the main program itself)
Parent(e) ==
    IF \E f \in Entries : f < e /\ e < BodyStart(f)
    THEN CHOOSE f \in Entries :
            /\ f < e /\ e < BodyStart(f)
            /\ \A h \in Entries : (h < e /\ e < BodyStart(h)) => h <= f
    ELSE 0

RECURSIVE Ancestor(_, _)
\* the block k lexical levels outside block e
Ancestor(e, k) == IF k <= 0 THEN e ELSE Ancestor(Parent(e), k - 1)

\* the block an activation record at base b belongs to: the target of the
\* CAL that created it, found before its return address
BlockOf(b) == IF b = 0 THEN 0 ELSE Ins(Rd(b + RA_OFFSET) - 1).address

RECURSIVE MostRecent(_, _, _)
\* the base of the most recent activation record of block e on the dynamic
\* chain from b (-1 if there is none)
MostRecent(b, e, fuel) ==
    IF BlockOf(b) = e THEN b
    ELSE IF b <= 0 \/ fuel = 0 THEN -1
    ELSE MostRecent(Rd(b + DL_OFFSET), e, fuel - 1)

\* C11: whenever LOD/STO/RED L A or CAL L a is about to execute in the body
\* of block d, base(L) is the base of the most recent activation record of
\* the block L lexical levels outside d; for LOD/STO/RED, A is a variable
\* slot of that block (3 <= A < its INT size); for CAL, that block is the
\* one that declares the callee.
C11_StaticLinksResolveScope ==
    (CanStep /\ Fetch.op \in {"LOD", "STO", "RED", "CAL"}) =>
        /\ BlockOf(B) = Owner(P)
        /\ base(B, Fetch.level)
             = MostRecent(B, Ancestor(Owner(P), Fetch.level), MemTop)
        /\ Fetch.op # "CAL" =>
             /\ Fetch.address >= FirstAddress
             /\ Fetch.address
                  < Ins(BodyStart(Ancestor(Owner(P), Fetch.level))).address
        /\ Fetch.op = "CAL" =>
             Parent(Fetch.address) = Ancestor(Owner(P), Fetch.level)

\* a procedure at depth 2, entered by recursion through its parent, stores
\* into the variable of its parent while an older activation record of the
\* parent is still on the stack
C11_Witness ==
    /\ CanStep /\ Fetch.op = "STO" /\ Fetch.level = 1
    /\ Parent(Owner(P)) # 0
    /\ base(B, 1) # B
    /\ \E b \in liveFrames(B, MemTop) :
          b # base(B, 1) /\ b # 0 /\ BlockOf(b) = Parent(Owner(P))


\* the instruction about to execute is RET (OPR 0 0)
AtRet == CanStep /\ Fetch.op = "OPR" /\ Fetch.address = 0

\* C12: in the execution of a compiled program, apart from the halts on a
\* runtime error (and from a crash on an access outside the stack vector),
\* the run loop ends exactly on a RET that leaves T < 0; such
\* a RET is the RET of the main program (B = 0, in the body of block 0); the
\* RET of a procedure leaves T >= 0 and the run goes on; and while the VM
\* runs, P stays inside the instruction vector.
C12_StopsOnlyAtMainRet ==
    [][ /\ (AtRet /\ pc' = "exec") =>
              /\ (T' < 0) = ~running'
              /\ T' < 0 => (B = 0 /\ Owner(P) = 0)
              /\ Owner(P) # 0 => (T' >= 0 /\ running')
        /\ (pc = "exec" /\ running /\ ~running' /\ rtError' = rtError) =>
              (AtRet /\ T' < 0)
        /\ (pc' = "exec" /\ running') => (P' >= 0 /\ P' < Len(code)) ]_vars

\* a procedure has returned to its caller and the main program's RET has
\* then ended the run
C12_Witness ==
    /\ pc = "exec" /\ ~running /\ rtError = "" /\ T < 0
    /\ \E a \in 1 .. Len(code) : code[a].op = "CAL"
    /\ Len(stdout) > 0


-----------------------------------------------------------------------------
(* Byte accounting of the scanning loop and of the buffer *)

RECURSIVE TokenBytes(_)
\* the bytes of the values of the tokens toks, in order
TokenBytes(toks) ==
    IF toks = <<>> THEN <<>> ELSE Head(toks).value \o TokenBytes(Tail(toks))

\* the last token pushed
LastToken(toks) == toks[Len(toks)]

\* the file without its whitespace
NonSpace(bytes) == SelectSeq(bytes, LAMBDA c : ~isspace(c))

IsPrefix(p, s) == Len(p) <= Len(s) /\ \A i \in 1 .. Len(p) : p[i] = s[i]

\* the buffer is used to deliver bytes (not by the scanning loop)
InDelivery == lexPc = "deliver" \/ (lexPc = "done" /\ lexTokens = <<>>)

RECURSIVE trackAll(_, _, _)
\* the position tracking of advance() over the bytes d[i ..]
trackAll(b, d, i) ==
    IF i > Len(d) THEN b ELSE trackAll(trackNewline(b, d[i]), d, i + 1)

\* C13: the scanning loop ends with one END_OF_FILE token, the last one, and
\* never leaves defined behaviour; every pass that reads a token starts on a
\* byte of the input (the bytes skipped and read before it are fewer than
\* the input has) and reads at least that byte.
C13_TokenizeTerminatesWithEof ==
    [][ /\ lexPc' # "ub"
        /\ lexPc' = "done" /\ lexTokens' # <<>> =>
              /\ LastToken(lexTokens').type = "END_OF_FILE"
              /\ \A i \in 1 .. Len(lexTokens') - 1 :
                    lexTokens'[i].type # "END_OF_FILE"
        /\ (lexPc = "tokenize" /\ lexPc' # "done" /\ lexTokens' # lexTokens) =>
              /\ skipped' + Len(TokenBytes(lexTokens)) < Len(raw)
              /\ Len(LastToken(lexTokens').value) >= 1
              /\ LastToken(lexTokens').value[1]
                   = raw[skipped' + Len(TokenBytes(lexTokens)) + 1] ]_vars

\* C14: the tokens hold exactly the bytes of the input that are not
\* whitespace, in order: while the loop runs their values are a prefix of
\* the input without its whitespace, and when it has ended the bytes of the
\* tokens and the skipped whitespace add up to the input.
C14_TokensAreInputBytes ==
    lexTokens # <<>> =>
        /\ IsPrefix(TokenBytes(lexTokens), NonSpace(raw))
        /\ lexPc = "done" =>
              /\ TokenBytes(lexTokens) = NonSpace(raw)
              /\ Len(TokenBytes(lexTokens)) + skipped = Len(raw)

C16_PeekLeavesBufferUnchanged ==
    (InDelivery /\ peeks > 0) =>
        /\ IsPrefix(delivered, raw)
        /\ InputBuffer_isEOF(buf) = (Len(delivered) = Len(raw))
        /\ buf.currentLine = trackAll(InputBuffer(0), delivered, 1).currentLine
        /\ buf.currentColumn = trackAll(InputBuffer(0), delivered, 1).currentColumn
        /\ buf.sourceLines = trackAll(InputBuffer(0), delivered, 1).sourceLines
        /\ buf.currentLineBuffer
             = trackAll(InputBuffer(0), delivered, 1).currentLineBuffer

\* the part of C16 about the delivered bytes alone
C16_PeekLosesNoBlock ==
    (InDelivery /\ peeks > 0) =>
        /\ IsPrefix(delivered, raw)
        /\ InputBuffer_isEOF(buf) = (Len(delivered) = Len(raw))


\* C17: during one run of the driver the error tally of the diagnostic
\* engine never decreases, and wherever the driver decides whether to go on
\* after a phase (and at the summary) it equals the number of error-level
\* diagnostics reported so far.
C17_TallyCountsReportedErrors ==
    [][ /\ errorCount' >= errorCount
        /\ pc' \in {"lexCheck", "parseCheck", "done"} =>
              errorCount' = CountLevel(diags', "error") ]_vars


\* the addresses of the JMPs that close a while loop: the only backward jumps
LoopJmps ==
    { j \in 0 .. Len(code) - 1 : Ins(j).op = "JMP" /\ Ins(j).address <= j }

\* instruction k is the JPC of a while loop: it jumps right behind a
\* backward JMP that goes to the loop top at or before k
IsWhileJpc(k) ==
    /\ Ins(k).op = "JPC"
    /\ Ins(k).address - 1 \in LoopJmps
    /\ Ins(Ins(k).address - 1).address <= k
    /\ k < Ins(k).address - 1

\* the code of every while statement of a compiled program: condition code
\* from the loop top L, a JPC to the instruction behind the closing JMP, the
\* body, JMP 0 L
WhileShape ==
    parseRes = "true" =>
        /\ Cardinality(LoopJmps)
             = Cardinality({ i \in 1 .. Len(tokens) : tokens[i].type = "WHILE" })
        /\ \A j \in LoopJmps :
              /\ Ins(j).level = 0
              /\ \E k \in Ins(j).address + 1 .. j - 1 :
                    /\ Ins(k).op = "JPC"
                    /\ Ins(k).address = j + 1
                    /\ \A i \in Ins(j).address .. k - 1 :
                          Ins(i).op \in {"LIT", "LOD", "OPR"}

\* C18: a while statement compiles to condition code at the loop top L, a
\* JPC patched to the instruction right after the closing JMP, the body and
\* JMP 0 L; at run time its JPC enters the body when the condition value is
\* not 0 and leaves the loop the first time it is 0, and the closing JMP
\* goes back to L; the sum of 1 .. 10 writes 55.
C18_WhileLoop ==
    [][ /\ WhileShape'
        /\ (CanStep /\ IsWhileJpc(P) /\ pc' = "exec") =>
              /\ stack[T] # 0 => P' = P + 1
              /\ stack[T] = 0 => P' = Ins(P).address
              /\ T' = T - 1
        /\ (CanStep /\ P \in LoopJmps /\ pc' = "exec") =>
              (P' = Ins(P).address /\ T' = T)
        /\ (pc' = "done" /\ source = Sum10 /\ opts = RunMode) =>
              stdout' = <<55>> ]_vars

\* the loop of the sum of 1 .. 10 has been left after ten passes and 55 has
\* been written
C18_Witness ==
    /\ Done /\ source = Sum10 /\ opts = RunMode
    /\ LoopJmps # {}
    /\ stdout = <<55>>


\* C19: '*' and '/' bind tighter than '+' and '-', and operators of one
\* level associate to the left: the program that writes a + b * c writes
\* a + (b * c), the one that writes a - b - c writes (a - b) - c, the one
\* that writes a / b / c writes (a / b) / c, and x := 2 + 3 * 4; write(x)
\* writes 14.
C19_PrecedenceAndAssociativity ==
    (Done /\ opts = RunMode) =>
        /\ \A a, b, c \in Operands :
              /\ source = ExprProgram(a, "+", b, "*", c) => stdout = <<a + (b * c)>>
              /\ source = ExprProgram(a, "-", b, "-", c) => stdout = <<(a - b) - c>>
              /\ source = ExprProgram(a, "/", b, "/", c)
                    => stdout = <<(a \div b) \div c>>
        /\ source = Arith => stdout = <<14>>

\* 3 - 2 - 1 has been compiled and run, and 0 written (3 - (2 - 1) is 2)
C19_Witness ==
    /\ Done /\ opts = RunMode
    /\ source = ExprProgram(3, "-", 2, "-", 1)
    /\ stdout = <<0>>
    /\ exitCode = 0


\* the n-th smallest element of a set of numbers
Nth(S, n) == CHOOSE x \in S : Cardinality({ y \in S : y < x }) = n - 1

\* the positions of the 'call' tokens and the addresses of the CALs; the
\* single pass emits the n-th CAL for the n-th call statement
CallTokens == { i \in 1 .. Len(tokens) : tokens[i].type = "CALL" }
CalAddresses == { c \in 0 .. Len(code) - 1 : Ins(c).op = "CAL" }

\* instruction a ends the code of an expression
EndsExpression(a) ==
    \/ Ins(a).op \in {"LIT", "LOD"}
    \/ Ins(a).op = "OPR" /\ Ins(a).address \in {1, 2, 3, 4, 5}

\* C20: in the code of a compiled program, the instructions that evaluate
\* the arguments of call id(e1, ..., en), n >= 1, come before its CAL: the
\* instruction right before the CAL is the end of the code of en.
C20_ArgumentsBeforeCal ==
    parseRes = "true" =>
        /\ Cardinality(CallTokens) = Cardinality(CalAddresses)
        /\ \A n \in 1 .. Cardinality(CallTokens) :
              tokens[Nth(CallTokens, n) + 3].type # "RPAREN" =>
                  /\ Nth(CalAddresses, n) > 0
                  /\ EndsExpression(Nth(CalAddresses, n) - 1)


\* C21: CAL writes (return address, caller's B, base(L)) at T+1 .. T+3, sets
\* B = T+1 and leaves T unchanged; no step changes the header of an
\* activation record on the dynamic chain; RET sets T to the slot below the
\* record, B to the stored base and P to the stored return address, which is
\* the index behind a CAL.  So after the RET that matches a CAL, T and B are
\* what they were before the CAL and P is behind it, at any depth.
C21_FrameLivesFromCalToRet ==
    [][ /\ (CanStep /\ Fetch.op = "CAL" /\ pc' = "exec") =>
              /\ stack'[T + 1] = P + 1
              /\ stack'[T + 2] = B
              /\ stack'[T + 3] = base(B, Fetch.level)
              /\ B' = T + 1 /\ T' = T /\ P' = Fetch.address
        /\ (AtRet /\ pc' = "exec") =>
              /\ T' = B - 1
              /\ P' = stack[B + RA_OFFSET]
              /\ B' = stack[B + DL_OFFSET]
        /\ (AtRet /\ B # 0 /\ pc' = "exec") =>
              /\ P' >= 1 /\ Ins(P' - 1).op = "CAL"
              /\ B' < B /\ B' \in liveFrames(B, MemTop)
        /\ (pc = "exec" /\ pc' = "exec") =>
              \A b \in liveFrames(B, MemTop) : \A k \in 0 .. 2 :
                  stack'[b + k] = stack[b + k] ]_vars

\* a procedure called from a procedure has just returned: P is behind the
\* CAL, and the slots above T still hold the header the CAL wrote
C21_Witness ==
    /\ pc = "exec" /\ running /\ B # 0
    /\ P >= 1 /\ Ins(P - 1).op = "CAL"
    /\ stack[T + 1] = P /\ stack[T + 2] = B
    /\ stack[T + 3] = base(B, Ins(P - 1).level)


\* the OPR code the language definition gives a relational operator
RelCode(relop) ==
    CASE relop = "=" -> 8 [] relop = "<>" -> 9 [] relop = "<" -> 10
      [] relop = "<=" -> 13 [] relop = ">" -> 12 [] relop = ">=" -> 11

\* whether x relop y holds
Holds(x, relop, y) ==
    CASE relop = "=" -> x = y [] relop = "<>" -> x # y [] relop = "<" -> x < y
      [] relop = "<=" -> x <= y [] relop = ">" -> x > y [] relop = ">=" -> x >= y

\* C22: for e1 relop e2 the parser emits OPR 0 with code 8, 9, 10, 13, 12, 11
\* for =, <>, <, <=, >, >=; executing a relational OPR replaces the two
\* operands by 1 if the relation holds between them (second from top on
\* the left) and by 0 otherwise; so "if a - b relop c then write(1)"
\* writes 1 exactly when the relation holds.
C22_RelationalOperators ==
    [][ /\ \A relop \in RelOps :
              (CanStep /\ Fetch.op = "OPR" /\ Fetch.address = RelCode(relop)
                 /\ pc' = "exec") =>
                  /\ T' = T - 1
                  /\ stack'[T - 1] = Bool(Holds(stack[T - 1], relop, stack[T]))
                  /\ P' = P + 1 /\ B' = B
        /\ \A a, b, c \in Operands : \A relop \in RelOps :
              source = RelProgram(a, b, relop, c) =>
                  /\ pc' = "exec" =>
                        /\ Ins(4)' = Instruction("OPR", 0, 3)
                        /\ Ins(6)' = Instruction("OPR", 0, RelCode(relop))
                        /\ Ins(7)'.op = "JPC"
                  /\ Done' =>
                        stdout' = IF Holds(a - b, relop, c)
                                  THEN <<1, 2>> ELSE <<2>> ]_vars

\* 1 - 3 <= 1 and 3 - 1 >= 2 have been compiled and run and found to hold
C22_Witness ==
    /\ Done /\ stdout = <<1, 2>>
    /\ source \in {RelProgram(1, 3, "<=", 1), RelProgram(3, 1, ">=", 2)}


\* C23: OPR 6 replaces the top of stack v by 1 if v is odd and by 0 if v is
\* even, for negative v too, so "if odd a - b then write(1)" writes 1
\* exactly when a - b is odd.
C23_OddTestsParity ==
    [][ /\ (CanStep /\ Fetch.op = "OPR" /\ Fetch.address = 6 /\ pc' = "exec") =>
              /\ T' = T
              /\ stack'[T] = Bool(stack[T] % 2 = 1)
        /\ \A a, b \in Operands :
              (source = OddProgram(a, b) /\ Done') =>
                  stdout' = IF (a - b) % 2 = 1 THEN <<1, 2>> ELSE <<2>> ]_vars


DivisionByZero == rtError = "Runtime Error: Division by zero"

\* C24: OPR DIV with a zero divisor reports "Division by zero", performs no
\* division and halts: no instruction is executed after it in that run, so
\* "write(a / 0); write(2)" writes nothing.
C24_DivisionByZeroHalts ==
    [][ /\ (CanStep /\ Fetch.op = "OPR" /\ Fetch.address = 5 /\ stack[T] = 0
              /\ pc' = "exec") =>
                  /\ DivisionByZero' /\ ~running'
                  /\ stack' = stack /\ stdout' = stdout
        /\ (pc = "exec" /\ DivisionByZero) =>
              /\ pc' = "done"
              /\ UNCHANGED <<P, T, B, stack, stdin, stdout, rtError>>
        /\ \A a \in Operands :
              (source = DivProgram(a, 0) /\ Done') =>
                  DivisionByZero' /\ stdout' = <<>> ]_vars

\* 1 / 0 has been executed and the run is over
C24_Witness == Done /\ source = DivProgram(1, 0) /\ DivisionByZero /\ P = 5


\* a byte that cannot start a token: an ASCII byte that is neither
\* whitespace nor the first character of a token, or a non-ASCII byte
InvalidByte(c) == c >= 128 \/ (c # SENTINEL /\ ~isspace(c) /\ ~isValidTokenStart(c))

RECURSIVE InvalidRuns(_, _)
\* the maximal runs of invalid bytes of s, cur being the run under way
InvalidRuns(s, cur) ==
    IF s = <<>> THEN (IF cur = <<>> THEN <<>> ELSE <<cur>>)
    ELSE IF InvalidByte(Head(s)) THEN InvalidRuns(Tail(s), Append(cur, Head(s)))
    ELSE (IF cur = <<>> THEN <<>> ELSE <<cur>>) \o InvalidRuns(Tail(s), <<>>)

\* the values of the error tokens, in order
ErrorValues(toks) ==
    [ i \in 1 .. Len(SelectSeq(toks, LAMBDA k : k.type = "ERROR")) |->
        SelectSeq(toks, LAMBDA k : k.type = "ERROR")[i].value ]

\* C25: in a well-formed file every maximal run of invalid characters
\* (ASCII and non-ASCII in any mix and order) yields exactly one error
\* token, whose value is the whole run.
C25_OneErrorTokenPerRun ==
    (lexPc = "done" /\ raw \in RunFiles) =>
        ErrorValues(lexTokens) = InvalidRuns(raw, <<>>)


\* C26: the variables of a scope (parameters first, then the var names)
\* have the offsets 3, 4, 5, ... in declaration order, a rejected
\* redeclaration consuming none; the INT of the scope's block has the
\* operand 3 + the number of these variables and is the target of the
\* block's leading JMP.
C26_OffsetsAndFrameSize ==
    /\ \A sc \in scopeHist :
          varAddresses(sc) = [i \in DOMAIN varAddresses(sc) |-> FirstAddress + i - 1]
    /\ \A blk \in blockHist :
          /\ blk.vars = [i \in DOMAIN blk.vars |-> FirstAddress + i - 1]
          /\ Ins(blk.int) = Instruction("INT", 0, FirstAddress + Len(blk.vars))
          /\ Ins(blk.jmp) = Instruction("JMP", 0, blk.int)

\* "var a, a, b; procedure q(x); var x, y; ..." has been parsed: both
\* redeclarations were rejected and both blocks hold the offsets 3 and 4
C26_Witness ==
    /\ source = RedeclThenVar
    /\ \E blk \in blockHist : blk.jmp > 0 /\ blk.vars = <<3, 4>>
    /\ \E blk \in blockHist : blk.jmp = 0 /\ blk.vars = <<3, 4>>
    /\ \E i, j \in DOMAIN diags :
          i # j /\ diags[i].message = "redefinition"
                /\ diags[j].message = "redefinition"


RECURSIVE DisplayWidth(_)
\* the display width of a well-formed byte sequence: 1 per ASCII byte, 1 per
\* two-byte sequence, 2 per three- or four-byte sequence, 4 per tab
DisplayWidth(s) ==
    IF s = <<>> THEN 0
    ELSE IF s[1] = 9 THEN 4 + DisplayWidth(Tail(s))
    ELSE IF s[1] < 128 THEN 1 + DisplayWidth(Tail(s))
    ELSE IF getUTF8CharLength(s[1]) = 2 THEN 1 + DisplayWidth(SubSeq(s, 3, Len(s)))
    ELSE 2 + DisplayWidth(SubSeq(s, getUTF8CharLength(s[1]) + 1, Len(s)))

\* C27: the caret of a rendered diagnostic is indented by the display width
\* of the part of the source line before the error column.
C27_CaretAtDisplayWidth ==
    visualColumn # -1 =>
        visualColumn = DisplayWidth(SubSeq(sourceLine, 1, column - 1))


\* the size of the frame of the block whose body contains instruction a:
\* the operand of the block's INT
FrameSize(a) == Ins(BodyStart(Owner(a))).address

\* C28: in the execution of a compiled program T is back at the top of the
\* current frame (B + frame size - 1) after every complete statement: so it
\* is there at the closing JMP of a while loop, behind the statement that is
\* the loop body, and at the RET of a block, behind the block's body.
C28_StatementsStackNeutral ==
    (CanStep /\ parseRes = "true" /\ ~oob /\ (AtRet \/ P \in LoopJmps)) =>
        T = B + FrameSize(P) - 1


\* C29: end of input is absorbing: after an advance() made while isEOF()
\* held, isEOF() still holds, currentChar() still returns the sentinel, and
\* forward has not left the buffer.
C29_EofIsAbsorbing ==
    (lexPc = "past" /\ peeks = 0) =>
        /\ InputBuffer_isEOF(buf)
        /\ InputBuffer_currentChar(buf) = SENTINEL
        /\ ~buf.ub


\* the parser standing on token k of the token list: with the symbols that
\* the whole parse leaves in the table (known) or with none
ParserAt(k, known) ==
    [ (IF known THEN parseProgram(ParserWithCodegen(tokens))
       ELSE ParserWithCodegen(tokens))
      EXCEPT !.pos = k, !.exc = FALSE ]

\* r, reached from s, stands at or behind s and not behind the last token
Onward(s, r) == r.pos >= s.pos /\ r.pos <= Len(s.tokens)

\* r, reached from s, has consumed a token
Consumed(s, r) == Onward(s, r) /\ (r.exc \/ r.pos > s.pos)

\* the first token at or behind k where synchronize stops looking
SyncStop(k) ==
    CHOOSE j \in k .. Len(tokens) :
        /\ tokens[j].type \in {"SEMICOLON", "BEGIN", "END", "CONST", "VAR",
                               "PROCEDURE", "END_OF_FILE"}
        /\ \A i \in k .. j - 1 :
              tokens[i].type \notin {"SEMICOLON", "BEGIN", "END", "CONST", "VAR",
                                     "PROCEDURE", "END_OF_FILE"}

\* the parts of C30 for the parser standing at s
ParserProgress(s) ==
    /\ advance(s).pos = IF s.pos < Len(tokens) THEN s.pos + 1 ELSE s.pos
    /\ synchronize(s).pos
         = IF tokens[SyncStop(s.pos)].type = "SEMICOLON"
           THEN SyncStop(s.pos) + 1 ELSE SyncStop(s.pos)
    /\ Onward(s, parseStatement(s)) /\ Onward(s, parseBody(s))
    /\ Onward(s, parseBlock(s)) /\ Onward(s, parseProc(s))
    /\ Onward(s, parseLexp(s)) /\ Onward(s, parseExp(s))
    /\ Onward(s, parseTerm(s)) /\ Onward(s, parseFactor(s))
    /\ Onward(s, bodyLoop(s)) /\ Onward(s, procLoop(s))
    \* a descent into a statement, a body, a procedure, a parenthesised
    \* expression and a pass of the statement loop consume a token
    /\ currentToken(s).type \in {"IF", "WHILE", "BEGIN", "CALL", "READ", "WRITE"}
          => Consumed(s, parseStatement(s))
    /\ check(s, "BEGIN") => Consumed(s, parseBody(s))
    /\ check(s, "PROCEDURE") => Consumed(s, parseProc(s)) /\ Consumed(s, procLoop(s))
    /\ check(s, "LPAREN") => Consumed(s, parseFactor(s))
    /\ check(s, "SEMICOLON") => Consumed(s, bodyLoop(s))

\* C30: parse() returns on every token list that ends with END_OF_FILE: the
\* position never decreases and never passes the last token, descents and
\* loop passes consume a token, and synchronize stops behind the next ";"
\* or on the next begin, end, const, var, procedure or end of file.
C30_ParseTerminates ==
    (pc = "parseCheck" /\ input = <<>>) =>
        /\ parseRes \in {"true", "false", "exception"}
        /\ parse(tokens).s.pos \in 1 .. Len(tokens)
        /\ \A k \in 1 .. Len(tokens) : \A known \in BOOLEAN :
              ParserProgress(ParserAt(k, known))

\* an invalid token list has been parsed to its end of file: errors were
\* reported and synchronize has skipped tokens
C30_Witness ==
    /\ pc = "parseCheck" /\ input = <<>> /\ source \in Garbage
    /\ parseRes = "false"
    /\ Len(tokens) > 10
    /\ parse(tokens).s.pos = Len(tokens)

=============================================================================
